---- MODULE Spec2Model ----
(***************************************************************************)
(* A model of the record store and cipher engine of MLCryptoAnalyzer:      *)
(*   datastore/datastore.py        BinaryDatastore, FileDatastore,         *)
(*                                 InMemDatastore, SplitFilesDatastore     *)
(*   encryption/encryption_manager.py   EncryptionManager and its ciphers  *)
(*                                                                         *)
(* Python exceptions are modelled by the name of their kind:               *)
(*   "ValueError"           raised by a file handle that is closed or not  *)
(*                          opened for the operation (io.Unsupported-      *)
(*                          Operation is a ValueError): the StateError     *)
(*   "CorruptionError"      Exception("Data file corrupted. ...")          *)
(*   "ConfigurationError"   Exception("Field ... Not supported data type")*)
(*                          Exception("Shift only supports ECB") ...       *)
(*   "NotImplementedError"  the UnsupportedOperationError                  *)
(***************************************************************************)
EXTENDS Integers, Sequences, FiniteSets, TLC

VARIABLES
    backend,          \* which store the run exercises
    byteorder,        \* sys.byteorder of the platform
    object_fields,    \* BaseDatastore.object_fields: the schema
    fsys,             \* the file system: path -> bytes of the file
    fd,               \* the FileDatastore objects created so far
    calls,            \* the write_record / read_next_record calls made: arguments and results
    last,             \* the most recent call and its result
    truncated,        \* number of bytes cut off the tail of the file
    inmem_data,       \* InMemDatastore.__data: the class-level queue
    num_of_records_left,  \* InMemDatastore.__num_of_records_left, per instance
    num_of_records_pre_file,  \* SplitFilesDatastore.__num_of_records_pre_file
    curr_file_datastore,      \* SplitFilesDatastore.__curr_file_datastore (0 is None)
    curr_index,               \* SplitFilesDatastore.__curr_index
    split_closed,             \* SplitFilesDatastore.close() has been called
    em,               \* the EncryptionManager object
    ctor,             \* the arguments the EncryptionManager was constructed with
    draws,            \* the values get_random_bytes has returned for keys
    pg,               \* the PlaintextGenerator object, or how its construction failed
    tg,               \* the TrainingDataGenerator object
    managers,         \* the EncryptionManager objects of the encryption generators
    kg                \* the KerasFromFilesDataGenerator object

fileVars == <<byteorder, object_fields, fsys, fd, truncated>>
inmemVars == <<inmem_data, num_of_records_left>>
splitVars == <<num_of_records_pre_file, curr_file_datastore, curr_index, split_closed>>
encVars == <<em, ctor, draws>>
genVars == <<pg>>
trainVars == <<tg, managers>>
kerasVars == <<kg>>
vars == <<backend, byteorder, object_fields, fsys, fd, calls, last, truncated,
          inmem_data, num_of_records_left,
          num_of_records_pre_file, curr_file_datastore, curr_index, split_closed,
          em, ctor, draws, pg, tg, managers, kg>>

(***************************************************************************)
(* Bounds of the model.                                                    *)
(***************************************************************************)
MaxRecords == 2        \* write_record calls in a run of the File store
MaxReads == 3          \* read_next_record calls in a run
MaxStreamLen == 6      \* length of an arbitrary byte stream
MaxFlushes == 1        \* flushes of a handle after which no flush() call is made
MaxSplitRecords == 4   \* write_record calls in a run of the SplitFiles store
MaxShardSize == 2      \* largest number of records per shard
MaxEncrypts == 2       \* encrypt calls in a run of the EncryptionManager
MaxDecrypts == 1       \* decrypt calls in a run of the EncryptionManager
MaxDataSize == 3       \* largest size bound given to a plaintext generator
MaxGenerates == 2      \* generate calls in a run of a plaintext generator
MaxTrainRecords == 3   \* records that the generate_data calls of a run write
MaxGenerateDataCalls == 2  \* generate_data calls in a run
MaxBackendRecords == 2 \* records written to each backend in a run that compares them
MaxBigRecords == 2     \* records of about the maximum record size written in a run
MaxAutoflushRecords == 3  \* write_record calls in a run of a store with autoflush
MaxOnlineCalls == 2    \* get_items_internal calls in a run of the online generator
MaxOtherWrites == 1    \* records written to another InMemDatastore of the process
MaxKeyCalls == 2       \* encrypt and decrypt calls in a run that also calls get_key

(***************************************************************************)
(* Python values.  A value is [t |-> type name, v |-> content]: the code   *)
(* points of a str, the bytes of a bytes / bytearray.                      *)
(***************************************************************************)
NoneVal == [t |-> "NoneType", v |-> <<>>]
PyStr(cps) == [t |-> "str", v |-> cps]
PyBytes(bs) == [t |-> "bytes", v |-> bs]
PyByteArray(bs) == [t |-> "bytearray", v |-> bs]
PyInt == [t |-> "int", v |-> <<7>>]

EmptyRec == [x \in {} |-> NoneVal]

Min(a, b) == IF a < b THEN a ELSE b

\* Python's s[a:b] for 0 <= a <= b: the slice is clamped to the sequence
Slice(s, a, b) == IF a >= Len(s) THEN <<>> ELSE SubSeq(s, a + 1, Min(b, Len(s)))

LEN_FIELD_SIZE == 4

\* int.to_bytes(LEN_FIELD_SIZE, sys.byteorder)
to_bytes(n, order) ==
    LET le == <<n % 256, (n \div 256) % 256, (n \div 65536) % 256, (n \div 16777216) % 256>>
    IN IF order = "little" THEN le ELSE <<le[4], le[3], le[2], le[1]>>

RECURSIVE from_bytes_big(_, _)
from_bytes_big(s, acc) ==
    IF s = <<>> THEN acc ELSE from_bytes_big(Tail(s), acc * 256 + Head(s))

RECURSIVE from_bytes_little(_)
from_bytes_little(s) ==
    IF s = <<>> THEN 0 ELSE Head(s) + 256 * from_bytes_little(Tail(s))

\* int.from_bytes(s, sys.byteorder); the empty slice gives 0
from_bytes(s, order) ==
    IF order = "little" THEN from_bytes_little(s) ELSE from_bytes_big(s, 0)

\* the UTF-8 encoding of one code point (below 65536)
utf8_char(cp) ==
    IF cp < 128 THEN <<cp>>
    ELSE IF cp < 2048 THEN <<192 + (cp \div 64), 128 + (cp % 64)>>
    ELSE <<224 + (cp \div 4096), 128 + ((cp \div 64) % 64), 128 + (cp % 64)>>

RECURSIVE utf8(_)
\* bytes(field_data, encoding="UTF-8")
utf8(cps) == IF cps = <<>> THEN <<>> ELSE utf8_char(Head(cps)) \o utf8(Tail(cps))

(***************************************************************************)
(* BinaryDatastore: the record codec.                                      *)
(***************************************************************************)
RECURSIVE record_data_to_bin_loop_charlen(_, _, _, _)
\* a variant of record_data_to_bin_loop that frames a text by its number of
\* characters, not of bytes
record_data_to_bin_loop_charlen(fields, record_data, order, result) ==
    IF fields = <<>> THEN [err |-> "", bin |-> result]
    ELSE
        LET field_name == Head(fields)
            field_data == IF field_name \in DOMAIN record_data
                          THEN record_data[field_name] ELSE NoneVal
        IN IF field_data.t # "NoneType"
           THEN IF field_data.t \notin {"str", "bytes"}
                THEN [err |-> "ConfigurationError", bin |-> <<>>]
                ELSE LET data == IF field_data.t = "str" THEN utf8(field_data.v)
                                 ELSE field_data.v
                     IN record_data_to_bin_loop_charlen(Tail(fields), record_data, order,
                            result \o to_bytes(Len(field_data.v), order) \o data)
           ELSE record_data_to_bin_loop_charlen(Tail(fields), record_data, order,
                    result \o to_bytes(0, order))

RECURSIVE record_data_to_bin_loop(_, _, _, _)
record_data_to_bin_loop(fields, record_data, order, result) ==
    IF fields = <<>> THEN [err |-> "", bin |-> result]
    ELSE
        LET field_name == Head(fields)
            field_data == IF field_name \in DOMAIN record_data
                          THEN record_data[field_name] ELSE NoneVal
        IN IF field_data.t # "NoneType"
           THEN IF field_data.t \notin {"str", "bytes"}
                THEN [err |-> "ConfigurationError", bin |-> <<>>]
                ELSE LET data == IF field_data.t = "str" THEN utf8(field_data.v)
                                 ELSE field_data.v
                     IN record_data_to_bin_loop(Tail(fields), record_data, order,
                            result \o to_bytes(Len(data), order) \o data)
           ELSE record_data_to_bin_loop(Tail(fields), record_data, order,
                    result \o to_bytes(0, order))

\* BinaryDatastore.__record_data_to_bin: result[0:index] of the buffer, which
\* holds the frames of the fields one after the other
record_data_to_bin(fields, record_data, order) ==
    record_data_to_bin_loop(fields, record_data, order, <<>>)

RECURSIVE bin_to_record_data_loop(_, _, _, _, _)
bin_to_record_data_loop(fields, bin_data, order, index, result) ==
    IF fields = <<>> THEN result
    ELSE
        LET field_size == from_bytes(Slice(bin_data, index, index + LEN_FIELD_SIZE), order)
            index2 == index + LEN_FIELD_SIZE
        IN IF field_size > 0
           THEN bin_to_record_data_loop(Tail(fields), bin_data, order, index2 + field_size,
                    (Head(fields) :> PyByteArray(Slice(bin_data, index2, index2 + field_size)))
                        @@ result)
           ELSE bin_to_record_data_loop(Tail(fields), bin_data, order, index2, result)

\* BinaryDatastore.__bin_to_record_data
bin_to_record_data(fields, bin_data, order) ==
    bin_to_record_data_loop(fields, bin_data, order, 0, EmptyRec)

(***************************************************************************)
(* FileDatastore.  An object is its file handle (path, mode, closed, read  *)
(* position) and the fields __num_records and __autoflush_num_records;     *)
(* flush_calls counts the flushes of the handle.  The operators work on    *)
(* st = [fd, fsys, err]: the objects, the files and the exception raised.  *)
(***************************************************************************)
\* FileDatastore.__init__: open(file_path, mode=file_mode)
FileDatastore_init(file_path, file_mode, autoflush) ==
    [path |-> file_path, mode |-> file_mode, closed |-> FALSE, pos |-> 0,
     num_records |-> 0, autoflush_num_records |-> autoflush, flush_calls |-> 0]

\* a variant of write_internal that counts the write before it is made
write_internal_count_first(st, o, data) ==
    LET n == st.fd[o].num_records + 1
        auto == st.fd[o].autoflush_num_records
        flushes == IF auto > 0 /\ n % auto = 0 THEN 1 ELSE 0
    IN IF st.fd[o].closed \/ st.fd[o].mode # "wb"
       THEN [st EXCEPT !.err = "ValueError", !.fd[o].num_records = n]
       ELSE [fd |-> [st.fd EXCEPT ![o].num_records = n, ![o].flush_calls = @ + flushes],
             fsys |-> [st.fsys EXCEPT ![st.fd[o].path] = @ \o data],
             err |-> ""]

\* FileDatastore.write_internal
write_internal(st, o, data) ==
    IF st.fd[o].closed \/ st.fd[o].mode # "wb"
    THEN [st EXCEPT !.err = "ValueError"]
    ELSE LET n == st.fd[o].num_records + 1
             auto == st.fd[o].autoflush_num_records
             flushes == IF auto > 0 /\ n % auto = 0 THEN 1 ELSE 0
         IN [fd |-> [st.fd EXCEPT ![o].num_records = n, ![o].flush_calls = @ + flushes],
             fsys |-> [st.fsys EXCEPT ![st.fd[o].path] = @ \o data],
             err |-> ""]

\* a variant of write_record that writes the payload and then its length
write_record_payload_first(st, o, fields, record_data, order) ==
    LET record_bin_data == record_data_to_bin(fields, record_data, order)
    IN IF record_bin_data.err # ""
       THEN [st EXCEPT !.err = record_bin_data.err]
       ELSE LET s1 == write_internal(st, o, record_bin_data.bin)
            IN IF s1.err # "" THEN s1
               ELSE write_internal(s1, o, to_bytes(Len(record_bin_data.bin), order))

\* a variant of write_record that has written a length before the encoding fails
write_record_header_then_fail(st, o, fields, record_data, order) ==
    LET record_bin_data == record_data_to_bin(fields, record_data, order)
    IN IF record_bin_data.err # ""
       THEN [write_internal(st, o, to_bytes(0, order)) EXCEPT !.err = record_bin_data.err]
       ELSE LET s1 == write_internal(st, o, to_bytes(Len(record_bin_data.bin), order))
            IN IF s1.err # "" THEN s1 ELSE write_internal(s1, o, record_bin_data.bin)

\* BinaryDatastore.write_record
BinaryDatastore_write_record(st, o, fields, record_data, order) ==
    LET record_bin_data == record_data_to_bin(fields, record_data, order)
    IN IF record_bin_data.err # ""
       THEN [st EXCEPT !.err = record_bin_data.err]
       ELSE LET s1 == write_internal(st, o, to_bytes(Len(record_bin_data.bin), order))
            IN IF s1.err # "" THEN s1 ELSE write_internal(s1, o, record_bin_data.bin)

RECURSIVE read_internal_loop(_, _, _, _)
\* the loop of read_internal: a regular file gives the bytes asked for, fewer at EOF
read_internal_loop(file, pos, read_len, data) ==
    IF Len(data) < read_len
    THEN LET chunk == Slice(file, pos + Len(data), pos + read_len)
         IN IF chunk = <<>> THEN data
            ELSE read_internal_loop(file, pos, read_len, data \o chunk)
    ELSE data

\* FileDatastore.read_internal: [err, data]
read_internal(obj, file, read_len) ==
    IF read_len > 0 /\ (obj.closed \/ obj.mode # "rb")
    THEN [err |-> "ValueError", data |-> <<>>]
    ELSE [err |-> "", data |-> read_internal_loop(file, obj.pos, read_len, <<>>)]

\* a variant of read_next_record that decodes whatever payload it got
read_next_record_short_payload(obj, file, fields, order) ==
    LET record_size_bytes == read_internal(obj, file, LEN_FIELD_SIZE)
        pos1 == obj.pos + Len(record_size_bytes.data)
        record_size == from_bytes(record_size_bytes.data, order)
        record_bin_data == read_internal([obj EXCEPT !.pos = pos1], file, record_size)
        pos2 == pos1 + Len(record_bin_data.data)
    IN IF record_size_bytes.err # ""
       THEN [result |-> record_size_bytes.err, rec |-> EmptyRec, pos |-> obj.pos]
       ELSE IF Len(record_size_bytes.data) = 0
       THEN [result |-> "None", rec |-> EmptyRec, pos |-> pos1]
       ELSE IF Len(record_size_bytes.data) < LEN_FIELD_SIZE
       THEN [result |-> "CorruptionError", rec |-> EmptyRec, pos |-> pos1]
       ELSE IF record_bin_data.err # ""
       THEN [result |-> record_bin_data.err, rec |-> EmptyRec, pos |-> pos1]
       ELSE [result |-> "record",
             rec |-> bin_to_record_data(fields, record_bin_data.data, order),
             pos |-> pos2]

\* a variant of read_next_record that takes a short header for the end of the stream
read_next_record_short_header(obj, file, fields, order) ==
    LET record_size_bytes == read_internal(obj, file, LEN_FIELD_SIZE)
        pos1 == obj.pos + Len(record_size_bytes.data)
        record_size == from_bytes(record_size_bytes.data, order)
        record_bin_data == read_internal([obj EXCEPT !.pos = pos1], file, record_size)
        pos2 == pos1 + Len(record_bin_data.data)
    IN IF record_size_bytes.err # ""
       THEN [result |-> record_size_bytes.err, rec |-> EmptyRec, pos |-> obj.pos]
       ELSE IF Len(record_size_bytes.data) < LEN_FIELD_SIZE
       THEN [result |-> "None", rec |-> EmptyRec, pos |-> pos1]
       ELSE IF record_bin_data.err # ""
       THEN [result |-> record_bin_data.err, rec |-> EmptyRec, pos |-> pos1]
       ELSE IF Len(record_bin_data.data) # record_size
       THEN [result |-> "CorruptionError", rec |-> EmptyRec, pos |-> pos2]
       ELSE [result |-> "record",
             rec |-> bin_to_record_data(fields, record_bin_data.data, order),
             pos |-> pos2]

\* BinaryDatastore.read_next_record: [result, rec, pos], pos the handle's new position
BinaryDatastore_read_next_record(obj, file, fields, order) ==
    LET record_size_bytes == read_internal(obj, file, LEN_FIELD_SIZE)
        pos1 == obj.pos + Len(record_size_bytes.data)
        record_size == from_bytes(record_size_bytes.data, order)
        record_bin_data == read_internal([obj EXCEPT !.pos = pos1], file, record_size)
        pos2 == pos1 + Len(record_bin_data.data)
    IN IF record_size_bytes.err # ""
       THEN [result |-> record_size_bytes.err, rec |-> EmptyRec, pos |-> obj.pos]
       ELSE IF Len(record_size_bytes.data) = 0
       THEN [result |-> "None", rec |-> EmptyRec, pos |-> pos1]
       ELSE IF Len(record_size_bytes.data) < LEN_FIELD_SIZE
       THEN [result |-> "CorruptionError", rec |-> EmptyRec, pos |-> pos1]
       ELSE IF record_bin_data.err # ""
       THEN [result |-> record_bin_data.err, rec |-> EmptyRec, pos |-> pos1]
       ELSE IF Len(record_bin_data.data) # record_size
       THEN [result |-> "CorruptionError", rec |-> EmptyRec, pos |-> pos2]
       ELSE [result |-> "record",
             rec |-> bin_to_record_data(fields, record_bin_data.data, order),
             pos |-> pos2]

(***************************************************************************)
(* The inputs of the runs.                                                 *)
(***************************************************************************)
Schemas == {<<>>, <<"f1">>, <<"f1", "f2">>}
ByteOrders == {"little", "big"}
AutoflushChoices == {0, 2}
\* values a caller may put in a field: None, "", a two-byte character, a byte, an int
Values == {NoneVal, PyStr(<<>>), PyStr(<<233>>), PyBytes(<<1>>), PyInt}
\* the records written: f1 absent or holding any value, f2 absent or holding a
\* byte, and one with a byte in f1 and an int in f2
Records ==
    UNION {[D -> Values] : D \in SUBSET {"f1"}}
      \cup {r \in UNION {[D -> Values] : D \in {{"f2"}, {"f1", "f2"}}} :
                r["f2"] = PyBytes(<<1>>)}
      \cup {[f1 |-> PyBytes(<<1>>), f2 |-> PyInt]}
\* the records tried on a store that cannot take them
ProbeRecords == {EmptyRec, [f1 |-> PyBytes(<<1>>)], [f1 |-> PyInt]}
StreamBytes == {0, 1, 4}

FilePath == 0

idleInMem == inmem_data = <<>> /\ num_of_records_left = <<>>
idleSplit == /\ num_of_records_pre_file = 0
             /\ curr_file_datastore = 0
             /\ curr_index = 0
             /\ split_closed = FALSE

idleEnc == em = <<>> /\ ctor = <<>> /\ draws = <<>>
idleGen == pg = <<>>
idleTrain == tg = <<>> /\ managers = <<>>
idleKeras == kg = <<>>

NumCalls(op) == Len(SelectSeq(calls, LAMBDA c : c.op = op))

(***************************************************************************)
(* The calls on a FileDatastore object o.                                  *)
(***************************************************************************)
FileDatastore_write_record(o, record_data) ==
    /\ NumCalls("write") < MaxRecords
    /\ LET st == BinaryDatastore_write_record([fd |-> fd, fsys |-> fsys, err |-> ""],
                     o, object_fields, record_data, byteorder)
           res == IF st.err = "" THEN "ok" ELSE st.err
       IN /\ fd' = st.fd
          /\ fsys' = st.fsys
          /\ calls' = Append(calls, [op |-> "write", obj |-> o, rec |-> record_data,
                                     result |-> res])
          /\ last' = [op |-> "write_record", obj |-> o, result |-> res]
    /\ UNCHANGED <<backend, byteorder, object_fields, truncated, inmemVars, splitVars, encVars, genVars, trainVars, kerasVars>>

FileDatastore_read_next_record(o) ==
    /\ NumCalls("read") < MaxReads
    /\ LET r == BinaryDatastore_read_next_record(fd[o], fsys[fd[o].path], object_fields,
                                                byteorder)
       IN /\ fd' = [fd EXCEPT ![o].pos = r.pos]
          /\ calls' = Append(calls, [op |-> "read", obj |-> o, rec |-> r.rec,
                                     result |-> r.result])
          /\ last' = [op |-> "read_next_record", obj |-> o, result |-> r.result]
    /\ UNCHANGED <<backend, byteorder, object_fields, fsys, truncated, inmemVars, splitVars, encVars, genVars, trainVars, kerasVars>>

\* FileDatastore.flush: [fd, err]
flush(fds, o) ==
    IF fds[o].closed THEN [fd |-> fds, err |-> "ValueError"]
    ELSE [fd |-> [fds EXCEPT ![o].flush_calls = @ + 1], err |-> ""]

FileDatastore_flush(o) ==
    /\ fd[o].flush_calls < MaxFlushes
    /\ LET f == flush(fd, o)
       IN /\ fd' = f.fd
          /\ last' = [op |-> "flush", obj |-> o,
                      result |-> IF f.err = "" THEN "ok" ELSE f.err]
    /\ UNCHANGED <<backend, byteorder, object_fields, fsys, calls, truncated,
                   inmemVars, splitVars, encVars, genVars, trainVars, kerasVars>>

\* FileDatastore.close: closing a closed handle does nothing
close(fds, o) == [fds EXCEPT ![o].closed = TRUE]

FileDatastore_close(o) ==
    /\ fd' = close(fd, o)
    /\ last' = [op |-> "close", obj |-> o, result |-> "ok"]
    /\ UNCHANGED <<backend, byteorder, object_fields, fsys, calls, truncated,
                   inmemVars, splitVars, encVars, genVars, trainVars, kerasVars>>

(***************************************************************************)
(* SpecFile.  A writer (object 1) fills the file and closes it, the file   *)
(* may then lose its last bytes, and a fresh reader (object 2) reads it.   *)
(***************************************************************************)
InitFile ==
    /\ backend = "File"
    /\ idleKeras
    /\ byteorder \in ByteOrders
    /\ object_fields \in Schemas
    /\ fsys = (FilePath :> <<>>)
    /\ fd = <<FileDatastore_init(FilePath, "wb", 0)>>
    /\ calls = <<>>
    /\ last = [op |-> "init", obj |-> 1, result |-> "ok"]
    /\ truncated = 0
    /\ idleInMem /\ idleSplit /\ idleEnc /\ idleGen /\ idleTrain

\* the test's second FileDatastore(fields, file_name, "rb"), once the writer is closed
OpenReader ==
    /\ Len(fd) = 1
    /\ fd[1].closed
    /\ fd' = Append(fd, FileDatastore_init(FilePath, "rb", 0))
    /\ last' = [op |-> "init", obj |-> 2, result |-> "ok"]
    /\ UNCHANGED <<backend, byteorder, object_fields, fsys, calls, truncated,
                   inmemVars, splitVars, encVars, genVars, trainVars, kerasVars>>

\* the closed file loses its last k bytes before it is read
Truncate(k) ==
    /\ Len(fd) = 1
    /\ fd[1].closed
    /\ truncated = 0
    /\ Len(fsys[FilePath]) > 0
    /\ fsys' = [fsys EXCEPT ![FilePath] = SubSeq(@, 1, Len(@) - k)]
    /\ truncated' = k
    /\ UNCHANGED <<backend, byteorder, object_fields, fd, calls, last, inmemVars, splitVars, encVars, genVars, trainVars, kerasVars>>

WriterWrites == ~fd[1].closed /\ \E r \in Records : FileDatastore_write_record(1, r)
WriterCloses == ~fd[1].closed /\ FileDatastore_close(1)
ReaderReads == Len(fd) = 2 /\ FileDatastore_read_next_record(2)

NextFile ==
    \/ WriterWrites
    \/ WriterCloses
    \/ \E k \in 1..3 : Truncate(k)
    \/ OpenReader
    \/ ReaderReads

SpecFile == InitFile /\ [][NextFile]_vars

(***************************************************************************)
(* SpecStream.  A reader over an arbitrary byte stream.                    *)
(***************************************************************************)
Streams == UNION {[1..n -> StreamBytes] : n \in 0..MaxStreamLen}

InitStream ==
    /\ backend = "Stream"
    /\ idleKeras
    /\ byteorder \in ByteOrders
    /\ object_fields \in Schemas
    /\ \E s \in Streams : fsys = (FilePath :> s)
    /\ fd = <<FileDatastore_init(FilePath, "rb", 0)>>
    /\ calls = <<>>
    /\ last = [op |-> "init", obj |-> 1, result |-> "ok"]
    /\ truncated = 0
    /\ idleInMem /\ idleSplit /\ idleEnc /\ idleGen /\ idleTrain

NextStream == FileDatastore_read_next_record(1)

SpecStream == InitStream /\ [][NextStream]_vars

(***************************************************************************)
(* SpecClosed.  One FileDatastore, a writer on a new file or a reader on a *)
(* file of one record, takes calls before and after its close().           *)
(***************************************************************************)
OneRecordFile(fields, order) ==
    LET b == record_data_to_bin(fields, [f1 |-> PyBytes(<<1>>)], order).bin
    IN to_bytes(Len(b), order) \o b

InitClosed ==
    /\ backend = "Closed"
    /\ idleKeras
    /\ byteorder \in ByteOrders
    /\ object_fields \in Schemas
    /\ \/ /\ fsys = (FilePath :> <<>>)
          /\ \E a \in AutoflushChoices : fd = <<FileDatastore_init(FilePath, "wb", a)>>
       \/ /\ fsys = (FilePath :> OneRecordFile(object_fields, byteorder))
          /\ fd = <<FileDatastore_init(FilePath, "rb", 0)>>
    /\ calls = <<>>
    /\ last = [op |-> "init", obj |-> 1, result |-> "ok"]
    /\ truncated = 0
    /\ idleInMem /\ idleSplit /\ idleEnc /\ idleGen /\ idleTrain

NextClosed ==
    \/ \E r \in ProbeRecords : FileDatastore_write_record(1, r)
    \/ FileDatastore_read_next_record(1)
    \/ FileDatastore_flush(1)
    \/ FileDatastore_close(1)

SpecClosed == InitClosed /\ [][NextClosed]_vars

(***************************************************************************)
(* SpecInMem.  Two InMemDatastore instances.  __data is assigned once, in  *)
(* the class body, so every instance puts to and gets from the same queue; *)
(* __num_of_records_left becomes an instance attribute at the first write. *)
(***************************************************************************)
InMemIds == {"A", "B"}
InMemRecords == {[f1 |-> PyBytes(<<1>>)], [f1 |-> PyStr(<<233>>)]}

InitInMem ==
    /\ backend = "InMem"
    /\ idleKeras
    /\ byteorder = "little"
    /\ object_fields = <<"f1">>
    /\ fsys = <<>>
    /\ fd = <<>>
    /\ calls = <<>>
    /\ last = [op |-> "init", obj |-> 0, result |-> "ok"]
    /\ truncated = 0
    /\ inmem_data = <<>>
    /\ num_of_records_left = [i \in InMemIds |-> 0]
    /\ idleSplit /\ idleEnc /\ idleGen /\ idleTrain

\* InMemDatastore.write_record
InMemDatastore_write_record(i, record_data) ==
    /\ NumCalls("write") < MaxRecords
    /\ inmem_data' = Append(inmem_data, record_data)
    /\ num_of_records_left' = [num_of_records_left EXCEPT ![i] = @ + 1]
    /\ calls' = Append(calls, [op |-> "write", obj |-> i, rec |-> record_data,
                               result |-> "ok"])
    /\ last' = [op |-> "write_record", obj |-> i, result |-> "ok"]
    /\ UNCHANGED <<backend, fileVars, splitVars, encVars, genVars, trainVars, kerasVars>>

\* InMemDatastore.read_next_record
InMemDatastore_read_next_record(i) ==
    /\ NumCalls("read") < MaxReads
    /\ IF num_of_records_left[i] = 0
       THEN /\ calls' = Append(calls, [op |-> "read", obj |-> i, rec |-> EmptyRec,
                                       result |-> "None"])
            /\ last' = [op |-> "read_next_record", obj |-> i, result |-> "None"]
            /\ UNCHANGED inmemVars
       ELSE /\ inmem_data # <<>>      \* queue.get() waits while the queue is empty
            /\ inmem_data' = Tail(inmem_data)
            /\ num_of_records_left' = [num_of_records_left EXCEPT ![i] = @ - 1]
            /\ calls' = Append(calls, [op |-> "read", obj |-> i, rec |-> Head(inmem_data),
                                       result |-> "record"])
            /\ last' = [op |-> "read_next_record", obj |-> i, result |-> "record"]
    /\ UNCHANGED <<backend, fileVars, splitVars, encVars, genVars, trainVars, kerasVars>>

NextInMem ==
    \/ \E i \in InMemIds : \E r \in InMemRecords : InMemDatastore_write_record(i, r)
    \/ \E i \in InMemIds : InMemDatastore_read_next_record(i)

SpecInMem == InitInMem /\ [][NextInMem]_vars

(***************************************************************************)
(* SpecSplit.  A SplitFilesDatastore writing shards into an empty          *)
(* directory; the path of a shard is its number.                           *)
(***************************************************************************)
SplitRecords == {[f1 |-> PyBytes(<<1>>)], [f1 |-> PyStr(<<233>>)], [f1 |-> PyInt]}

InitSplit ==
    /\ backend = "Split"
    /\ idleKeras
    /\ byteorder \in ByteOrders
    /\ object_fields \in Schemas
    /\ fsys = <<>>
    /\ fd = <<>>
    /\ calls = <<>>
    /\ last = [op |-> "init", obj |-> 0, result |-> "ok"]
    /\ truncated = 0
    /\ idleInMem /\ idleEnc /\ idleGen /\ idleTrain
    /\ num_of_records_pre_file \in 1..MaxShardSize
    /\ curr_file_datastore = 0
    /\ curr_index = 0
    /\ split_closed = FALSE

\* the shard number of a record index that is not past the shard size
curr_batch_zero_based(index, per_file) == index \div per_file

\* curr_batch = int(1 + self.__curr_index / self.__num_of_records_pre_file)
curr_batch(index, per_file) == 1 + (index \div per_file)

\* a variant of the shard change that leaves the previous shard open
next_shard_keep_open(st, cur, index, per_file) ==
    IF index % per_file = 0
    THEN LET new_name == curr_batch(index, per_file)
         IN [fd |-> Append(st.fd, FileDatastore_init(new_name, "wb", 0)),
             fsys |-> (new_name :> <<>>) @@ st.fsys,
             err |-> "",
             cur |-> Len(st.fd) + 1]
    ELSE [fd |-> st.fd, fsys |-> st.fsys, err |-> "", cur |-> cur]

\* SplitFilesDatastore.write_record, up to the delegated write: the open shard is
\* closed and FileDatastore(object_fields, new_name, "wb") makes the next one
next_shard(st, cur, index, per_file) ==
    IF index % per_file = 0
    THEN LET closed == IF cur # 0 THEN close(st.fd, cur) ELSE st.fd
             new_name == curr_batch(index, per_file)
         IN [fd |-> Append(closed, FileDatastore_init(new_name, "wb", 0)),
             fsys |-> (new_name :> <<>>) @@ st.fsys,
             err |-> "",
             cur |-> Len(st.fd) + 1]
    ELSE [fd |-> st.fd, fsys |-> st.fsys, err |-> "", cur |-> cur]

SplitFilesDatastore_write_record(record_data) ==
    /\ NumCalls("write") < MaxSplitRecords
    /\ LET s1 == next_shard([fd |-> fd, fsys |-> fsys, err |-> ""], curr_file_datastore,
                            curr_index, num_of_records_pre_file)
           s2 == BinaryDatastore_write_record([fd |-> s1.fd, fsys |-> s1.fsys, err |-> ""],
                     s1.cur, object_fields, record_data, byteorder)
           res == IF s2.err = "" THEN "ok" ELSE s2.err
       IN /\ curr_file_datastore' = s1.cur
          /\ fd' = s2.fd
          /\ fsys' = s2.fsys
          /\ curr_index' = IF s2.err = "" THEN curr_index + 1 ELSE curr_index
          /\ calls' = Append(calls, [op |-> "write", obj |-> 0, rec |-> record_data,
                                     result |-> res])
          /\ last' = [op |-> "write_record", obj |-> 0, result |-> res]
    /\ UNCHANGED <<backend, byteorder, object_fields, truncated, inmemVars, encVars, genVars, trainVars, kerasVars,
                   num_of_records_pre_file, split_closed>>

\* a variant of read_next_record that reports the end of the stream
split_read_next_record_none == "None"

\* SplitFilesDatastore.read_next_record: what the call raises or returns
split_read_next_record == "NotImplementedError"

\* BaseDatastore.read_all on a SplitFilesDatastore: the first read_next_record
\* raises; were it to return None, the empty list would be returned
split_read_all ==
    LET next_record == split_read_next_record
    IN IF next_record = "None" THEN "[]" ELSE next_record

SplitFilesDatastore_read_next_record ==
    /\ backend = "Split"
    /\ last' = [op |-> "read_next_record", obj |-> 0, result |-> split_read_next_record]
    /\ UNCHANGED <<backend, fileVars, calls, inmemVars, splitVars, encVars, genVars, trainVars, kerasVars>>

SplitFilesDatastore_read_all ==
    /\ backend = "Split"
    /\ last' = [op |-> "read_all", obj |-> 0, result |-> split_read_all]
    /\ UNCHANGED <<backend, fileVars, calls, inmemVars, splitVars, encVars, genVars, trainVars, kerasVars>>

\* SplitFilesDatastore.close
SplitFilesDatastore_close ==
    /\ backend = "Split"
    /\ fd' = IF curr_file_datastore # 0 THEN close(fd, curr_file_datastore) ELSE fd
    /\ split_closed' = TRUE
    /\ last' = [op |-> "close", obj |-> 0, result |-> "ok"]
    /\ UNCHANGED <<backend, byteorder, object_fields, fsys, calls, truncated, inmemVars, encVars, genVars, trainVars, kerasVars,
                   num_of_records_pre_file, curr_file_datastore, curr_index>>

NextSplit ==
    \/ \E r \in SplitRecords : SplitFilesDatastore_write_record(r)
    \/ SplitFilesDatastore_read_next_record
    \/ SplitFilesDatastore_read_all
    \/ SplitFilesDatastore_close

SpecSplit == InitSplit /\ [][NextSplit]_vars

RECURSIVE read_all_loop(_, _, _, _, _)
read_all_loop(obj, file, fields, order, results) ==
    LET next_record == BinaryDatastore_read_next_record(obj, file, fields, order)
    IN IF next_record.result = "record"
       THEN read_all_loop([obj EXCEPT !.pos = next_record.pos], file, fields, order,
                          Append(results, next_record.rec))
       ELSE IF next_record.result = "None"
       THEN [err |-> "", results |-> results]
       ELSE [err |-> next_record.result, results |-> <<>>]

\* BaseDatastore.read_all on a new FileDatastore(fields, path, "rb")
read_all(file, fields, order) ==
    read_all_loop(FileDatastore_init(FilePath, "rb", 0), file, fields, order, <<>>)

(***************************************************************************)
(* EncryptionManager.  SimpleShiftCipher and SimpleXorCipher are modelled  *)
(* byte by byte.  The ciphers of the Crypto library (AES, DES3, DES) are   *)
(* modelled symbolically: a ciphertext names the method, mode, key and     *)
(* iv/nonce it was made with and the padded plaintext, and decrypts to it  *)
(* under exactly these.  A ciphertext is [sym, data, method, mode, key,    *)
(* ivn]; an optional bytes value (nonce, iv) is NoneVal or PyBytes(..).    *)
(***************************************************************************)
Methods == {"AES", "DES3", "DES", "SHIFT", "XOR", "RC4"}
\* _block_mode_dict
block_mode_dict == {"ECB", "CBC", "CFB", "OFB", "CTR"}
BYTE == 256

\* Crypto.Util.Padding.pad(plaintext, block_size): pkcs7
pad(data, block_size) ==
    LET padding_len == block_size - (Len(data) % block_size)
    IN data \o [i \in 1..padding_len |-> padding_len]

\* Crypto.Util.Padding.unpad(padded_plaintext, block_size): [err, data]
unpad(padded, block_size) ==
    LET pdata_len == Len(padded)
        padding_len == padded[pdata_len]
    IN IF pdata_len = 0 \/ pdata_len % block_size # 0
       THEN [err |-> "ValueError", data |-> <<>>]
       ELSE IF padding_len < 1 \/ padding_len > Min(block_size, pdata_len)
       THEN [err |-> "ValueError", data |-> <<>>]
       ELSE IF \E i \in (pdata_len - padding_len + 1)..pdata_len : padded[i] # padding_len
       THEN [err |-> "ValueError", data |-> <<>>]
       ELSE [err |-> "", data |-> SubSeq(padded, 1, pdata_len - padding_len)]

RECURSIVE xor(_, _)
\* a ^ b on bytes
xor(a, b) == IF a = 0 /\ b = 0 THEN 0 ELSE ((a + b) % 2) + 2 * xor(a \div 2, b \div 2)

\* self.__key[index % len(self.__key)], index counted from 1 here
key_at(key, index) == key[((index - 1) % Len(key)) + 1]

BytesCt(bytes) ==
    [sym |-> FALSE, data |-> bytes, method |-> "", mode |-> "", key |-> <<>>, ivn |-> <<>>]
SymCt(method, mode, key, ivn, padded) ==
    [sym |-> TRUE, data |-> padded, method |-> method, mode |-> mode, key |-> key,
     ivn |-> ivn]
\* what decrypting with another key, iv or nonce gives: bytes unrelated to any plaintext
Garbage == <<BYTE>>

\* SimpleShiftCipher.encrypt / SimpleXorCipher.encrypt: [err, data]
simple_encrypt(method, key, plaintext) ==
    IF Len(key) = 0 /\ Len(plaintext) > 0
    THEN [err |-> "ZeroDivisionError", data |-> <<>>]
    ELSE [err |-> "",
          data |-> [i \in 1..Len(plaintext) |->
                      IF method = "SHIFT"
                      THEN (plaintext[i] + key_at(key, i)) % BYTE
                      ELSE xor(plaintext[i], key_at(key, i))]]

\* a variant of simple_decrypt that does not repeat the key but holds its last byte
simple_decrypt_no_cycle(method, key, ciphertext) ==
    IF Len(key) = 0 /\ Len(ciphertext) > 0
    THEN [err |-> "ZeroDivisionError", data |-> <<>>]
    ELSE [err |-> "",
          data |-> [i \in 1..Len(ciphertext) |->
                      IF method = "SHIFT"
                      THEN (ciphertext[i] - key[Min(i, Len(key))] + BYTE) % BYTE
                      ELSE xor(ciphertext[i], key[Min(i, Len(key))])]]

\* SimpleShiftCipher.decrypt / SimpleXorCipher.decrypt: [err, data]
simple_decrypt(method, key, ciphertext) ==
    IF Len(key) = 0 /\ Len(ciphertext) > 0
    THEN [err |-> "ZeroDivisionError", data |-> <<>>]
    ELSE [err |-> "",
          data |-> [i \in 1..Len(ciphertext) |->
                      IF method = "SHIFT"
                      THEN (ciphertext[i] - key_at(key, i) + BYTE) % BYTE
                      ELSE xor(ciphertext[i], key_at(key, i))]]

\* the key lengths and the block length of the library's ciphers
key_lengths(method) ==
    IF method = "AES" THEN {16, 24, 32} ELSE IF method = "DES3" THEN {16, 24} ELSE {8}
cipher_block_size(method) == IF method = "AES" THEN 16 ELSE 8

\* a variant of __create_cipher that gives SHIFT and XOR a cipher in every block mode
create_cipher_any_mode(m, nonce, iv) ==
    IF m.encryption_method \in {"SHIFT", "XOR"}
    THEN [err |-> "", cipher |-> "simple", ivn |-> NoneVal]
    ELSE IF m.encryption_method \in {"AES", "DES3", "DES"}
         THEN [err |-> "", cipher |-> "block", ivn |-> IF nonce # NoneVal THEN nonce ELSE iv]
         ELSE [err |-> "ConfigurationError", cipher |-> "", ivn |-> NoneVal]

\* EncryptionManager.__create_cipher: [err, cipher, ivn]; ivn is the nonce or iv given
create_cipher(m, nonce, iv) ==
    IF m.encryption_method \in {"AES", "DES3", "DES"}
    THEN IF Len(m.encryption_key) \notin key_lengths(m.encryption_method)
         THEN [err |-> "ValueError", cipher |-> "", ivn |-> NoneVal]
         ELSE IF nonce # NoneVal
         THEN IF m.block_mode # "CTR"
              THEN [err |-> "TypeError", cipher |-> "", ivn |-> NoneVal]
              ELSE [err |-> "", cipher |-> "block", ivn |-> nonce]
         ELSE IF iv # NoneVal
         THEN IF m.block_mode \in {"ECB", "CTR"}
              THEN [err |-> "TypeError", cipher |-> "", ivn |-> NoneVal]
              ELSE [err |-> "", cipher |-> "block", ivn |-> iv]
         ELSE [err |-> "", cipher |-> "block", ivn |-> NoneVal]
    ELSE IF m.encryption_method \in {"SHIFT", "XOR"}
    THEN IF m.block_mode # "ECB"
         THEN [err |-> "ConfigurationError", cipher |-> "", ivn |-> NoneVal]
         ELSE [err |-> "", cipher |-> "simple", ivn |-> NoneVal]
    ELSE [err |-> "ConfigurationError", cipher |-> "", ivn |-> NoneVal]

\* EncryptionManager.__init__; drawn is what get_random_bytes returns
EncryptionManager_init(a, drawn) ==
    [encryption_method |-> a.encryption_method,
     encryption_key_size |-> a.encryption_key_size,
     encryption_key |-> IF a.encryption_key = NoneVal THEN drawn ELSE a.encryption_key.v,
     block_size |-> a.block_size,
     block_mode |-> a.block_mode,
     randomize_key_on_every_encryption |-> (a.encryption_key = NoneVal)]

\* a variant of encrypt that draws the next key before it encrypts
encrypt_rotate_first(m, plaintext, drawn, fresh) ==
    LET m1 == IF m.randomize_key_on_every_encryption
              THEN [m EXCEPT !.encryption_key = drawn] ELSE m
        c == create_cipher(m1, NoneVal, NoneVal)
        padded_plaintext == pad(plaintext, m.block_size)
        simple == simple_encrypt(m.encryption_method, m1.encryption_key, padded_plaintext)
    IN IF c.err # "" \/ c.cipher # "simple" \/ simple.err # ""
       THEN [err |-> "ValueError", ciphertext |-> BytesCt(<<>>), nonce |-> NoneVal,
             iv |-> NoneVal, m |-> m]
       ELSE [err |-> "", ciphertext |-> BytesCt(simple.data), nonce |-> NoneVal,
             iv |-> NoneVal, m |-> m1]

\* a variant of encrypt that keeps its key
encrypt_keep_key(m, plaintext, drawn, fresh) ==
    LET c == create_cipher(m, NoneVal, NoneVal)
        padded_plaintext == pad(plaintext, m.block_size)
        simple == simple_encrypt(m.encryption_method, m.encryption_key, padded_plaintext)
    IN IF c.err # "" \/ c.cipher # "simple" \/ simple.err # ""
       THEN [err |-> "ValueError", ciphertext |-> BytesCt(<<>>), nonce |-> NoneVal,
             iv |-> NoneVal, m |-> m]
       ELSE [err |-> "", ciphertext |-> BytesCt(simple.data), nonce |-> NoneVal,
             iv |-> NoneVal, m |-> m]

\* a variant of encrypt that draws the next key also when it fails
encrypt_rotate_on_failure(m, plaintext, drawn, fresh) ==
    LET c == create_cipher(m, NoneVal, NoneVal)
        padded_plaintext == pad(plaintext, m.block_size)
        simple == simple_encrypt(m.encryption_method, m.encryption_key, padded_plaintext)
        aligned == \/ m.block_mode \notin {"ECB", "CBC"}
                   \/ Len(padded_plaintext) % cipher_block_size(m.encryption_method) = 0
        err == IF c.err # "" THEN c.err
               ELSE IF c.cipher = "simple" THEN simple.err
               ELSE IF aligned THEN "" ELSE "ValueError"
        ivn == IF c.cipher = "block" /\ m.block_mode # "ECB" THEN fresh ELSE NoneVal
        m1 == IF m.randomize_key_on_every_encryption
              THEN [m EXCEPT !.encryption_key = drawn] ELSE m
    IN IF err # ""
       THEN [err |-> err, ciphertext |-> BytesCt(<<>>), nonce |-> NoneVal, iv |-> NoneVal,
             m |-> m1]
       ELSE [err |-> "",
             ciphertext |-> IF c.cipher = "simple" THEN BytesCt(simple.data)
                            ELSE SymCt(m.encryption_method, m.block_mode, m.encryption_key,
                                       ivn, padded_plaintext),
             nonce |-> IF m.block_mode = "CTR" THEN ivn ELSE NoneVal,
             iv |-> IF m.block_mode # "CTR" THEN ivn ELSE NoneVal,
             m |-> m1]

\* EncryptionManager.encrypt: [err, ciphertext, nonce, iv, m]; drawn is what
\* get_random_bytes returns, fresh the iv or nonce the library makes
encrypt(m, plaintext, drawn, fresh) ==
    LET c == create_cipher(m, NoneVal, NoneVal)
        padded_plaintext == pad(plaintext, m.block_size)
        simple == simple_encrypt(m.encryption_method, m.encryption_key, padded_plaintext)
        aligned == \/ m.block_mode \notin {"ECB", "CBC"}
                   \/ Len(padded_plaintext) % cipher_block_size(m.encryption_method) = 0
        err == IF c.err # "" THEN c.err
               ELSE IF c.cipher = "simple" THEN simple.err
               ELSE IF aligned THEN "" ELSE "ValueError"
        ivn == IF c.cipher = "block" /\ m.block_mode # "ECB" THEN fresh ELSE NoneVal
        m1 == IF m.randomize_key_on_every_encryption
              THEN [m EXCEPT !.encryption_key = drawn] ELSE m
    IN IF err # ""
       THEN [err |-> err, ciphertext |-> BytesCt(<<>>), nonce |-> NoneVal, iv |-> NoneVal,
             m |-> m]
       ELSE [err |-> "",
             ciphertext |-> IF c.cipher = "simple" THEN BytesCt(simple.data)
                            ELSE SymCt(m.encryption_method, m.block_mode, m.encryption_key,
                                       ivn, padded_plaintext),
             nonce |-> IF m.block_mode = "CTR" THEN ivn ELSE NoneVal,
             iv |-> IF m.block_mode # "CTR" THEN ivn ELSE NoneVal,
             m |-> m1]

\* the cipher's decrypt: the padded plaintexts it may give
cipher_decrypt(m, c, ciphertext) ==
    IF c.cipher = "simple"
    THEN IF ciphertext.sym THEN {[err |-> "", data |-> Garbage]}
         ELSE {simple_decrypt(m.encryption_method, m.encryption_key, ciphertext.data)}
    ELSE IF /\ ciphertext.sym
            /\ ciphertext.method = m.encryption_method
            /\ ciphertext.mode = m.block_mode
            /\ ciphertext.key = m.encryption_key
            /\ ciphertext.ivn = c.ivn
         THEN {[err |-> "", data |-> ciphertext.data]}
         ELSE {[err |-> "", data |-> Garbage]}

\* EncryptionManager.decrypt: the set of [err, plaintext] it may end with; unpadding
\* unrelated bytes fails or gives unrelated bytes
decrypt(m, ciphertext, nonce, iv) ==
    LET c == create_cipher(m, nonce, iv)
    IN IF c.err # "" THEN {[err |-> c.err, plaintext |-> <<>>]}
       ELSE UNION {
              IF p.err # "" THEN {[err |-> p.err, plaintext |-> <<>>]}
              ELSE IF p.data = Garbage
              THEN {[err |-> "ValueError", plaintext |-> <<>>],
                    [err |-> "", plaintext |-> Garbage]}
              ELSE LET u == unpad(p.data, m.block_size)
                   IN {[err |-> u.err, plaintext |-> u.data]}
              : p \in cipher_decrypt(m, c, ciphertext)}

\* EncryptionManager.get_key
get_key(m) == m.encryption_key

(***************************************************************************)
(* SpecEnc.  One EncryptionManager takes encrypt and decrypt calls.        *)
(***************************************************************************)
RandomSeeds == {0, 200}
\* Crypto.Random.get_random_bytes(n): the outcomes considered
get_random_bytes(n) == {[i \in 1..n |-> (seed + 7 * i) % BYTE] : seed \in RandomSeeds}
KeySizesOf(method) ==
    IF method \in {"SHIFT", "XOR"} THEN {0, 1, 2}
    ELSE IF method = "AES" THEN {2, 16}
    ELSE IF method = "DES3" THEN {16}
    ELSE IF method = "DES" THEN {8} ELSE {1}
FixedKeyOf(method) ==
    IF method \in {"SHIFT", "XOR", "RC4"} THEN <<3, 250>>
    ELSE [i \in 1..(IF method = "DES" THEN 8 ELSE 16) |-> i]
BlockSizes == {2, 16}
Plaintexts == {<<>>, <<250, 5, 7>>}
FreshIvs == {PyBytes(<<11>>), PyBytes(<<12>>)}

\* the arguments of EncryptionManager(...)
CtorArgs ==
    UNION {
      {[encryption_method |-> method, encryption_key_size |-> size, encryption_key |-> key,
        block_size |-> bs, block_mode |-> mode] :
         size \in KeySizesOf(method), key \in {NoneVal, PyBytes(FixedKeyOf(method))},
         bs \in BlockSizes, mode \in block_mode_dict}
      : method \in Methods}

InitEnc ==
    /\ backend = "Enc"
    /\ idleKeras
    /\ byteorder = "little"
    /\ object_fields = <<>>
    /\ fsys = <<>>
    /\ fd = <<>>
    /\ calls = <<>>
    /\ last = [op |-> "init", obj |-> 0, result |-> "ok"]
    /\ truncated = 0
    /\ idleInMem /\ idleSplit /\ idleGen /\ idleTrain
    /\ ctor \in CtorArgs
    /\ \E drawn \in get_random_bytes(ctor.encryption_key_size) :
          /\ em = EncryptionManager_init(ctor, drawn)
          /\ draws = IF ctor.encryption_key = NoneVal THEN <<drawn>> ELSE <<>>

EncryptionManager_encrypt(plaintext) ==
    /\ NumCalls("encrypt") < MaxEncrypts
    /\ \E drawn \in get_random_bytes(em.encryption_key_size), fresh \in FreshIvs :
          LET key == get_key(em)
              r == encrypt(em, plaintext, drawn, fresh)
              res == IF r.err = "" THEN "ok" ELSE r.err
          IN /\ em' = r.m
             /\ draws' = IF r.err = "" /\ em.randomize_key_on_every_encryption
                         THEN Append(draws, drawn) ELSE draws
             /\ calls' = Append(calls, [op |-> "encrypt", key |-> key,
                                        plaintext |-> plaintext, result |-> res,
                                        ciphertext |-> r.ciphertext, nonce |-> r.nonce,
                                        iv |-> r.iv, key_after |-> get_key(r.m),
                                        src |-> 0])
             /\ last' = [op |-> "encrypt", obj |-> 0, result |-> res]
    /\ UNCHANGED <<backend, fileVars, inmemVars, splitVars, ctor, genVars, trainVars, kerasVars>>

\* decrypt is called with the ciphertext, nonce and iv an earlier encrypt returned
EncryptionManager_decrypt(j) ==
    /\ NumCalls("decrypt") < MaxDecrypts
    /\ calls[j].op = "encrypt"
    /\ calls[j].result = "ok"
    /\ \E r \in decrypt(em, calls[j].ciphertext, calls[j].nonce, calls[j].iv) :
          LET res == IF r.err = "" THEN "ok" ELSE r.err
          IN /\ calls' = Append(calls, [op |-> "decrypt", key |-> get_key(em),
                                        plaintext |-> r.plaintext, result |-> res,
                                        ciphertext |-> calls[j].ciphertext,
                                        nonce |-> calls[j].nonce, iv |-> calls[j].iv,
                                        key_after |-> get_key(em), src |-> j])
             /\ last' = [op |-> "decrypt", obj |-> 0, result |-> res]
    /\ UNCHANGED <<backend, fileVars, inmemVars, splitVars, encVars, genVars, trainVars, kerasVars>>

\* bytes given to decrypt that no encrypt call returned
ForeignCiphertexts == {<<>>, <<9, 1>>}

\* decrypt is called with bytes of the caller's own, and no nonce or iv
EncryptionManager_decrypt_bytes(bytes) ==
    /\ NumCalls("decrypt") < MaxDecrypts
    /\ \E r \in decrypt(em, BytesCt(bytes), NoneVal, NoneVal) :
          LET res == IF r.err = "" THEN "ok" ELSE r.err
          IN /\ calls' = Append(calls, [op |-> "decrypt", key |-> get_key(em),
                                        plaintext |-> r.plaintext, result |-> res,
                                        ciphertext |-> BytesCt(bytes),
                                        nonce |-> NoneVal, iv |-> NoneVal,
                                        key_after |-> get_key(em), src |-> 0])
             /\ last' = [op |-> "decrypt", obj |-> 0, result |-> res]
    /\ UNCHANGED <<backend, fileVars, inmemVars, splitVars, encVars, genVars, trainVars, kerasVars>>

NextEnc ==
    \/ \E p \in Plaintexts : EncryptionManager_encrypt(p)
    \/ \E j \in DOMAIN calls : EncryptionManager_decrypt(j)
    \/ \E bytes \in ForeignCiphertexts : EncryptionManager_decrypt_bytes(bytes)

SpecEnc == InitEnc /\ [][NextEnc]_vars

(***************************************************************************)
(* SpecKey.  The calls of SpecEnc and, between them, calls of get_key().   *)
(***************************************************************************)
EncryptionManager_get_key ==
    /\ backend = "Enc"
    /\ last.op # "get_key"
    /\ last' = [op |-> "get_key", obj |-> 0, result |-> "ok", value |-> get_key(em)]
    /\ UNCHANGED <<backend, fileVars, calls, inmemVars, splitVars, encVars, genVars,
                   trainVars, kerasVars>>

NextKey ==
    \/ Len(calls) < MaxKeyCalls /\ \E p \in Plaintexts : EncryptionManager_encrypt(p)
    \/ Len(calls) < MaxKeyCalls /\ \E j \in DOMAIN calls : EncryptionManager_decrypt(j)
    \/ /\ Len(calls) < MaxKeyCalls
       /\ \E bytes \in ForeignCiphertexts : EncryptionManager_decrypt_bytes(bytes)
    \/ EncryptionManager_get_key

SpecKey == InitEnc /\ [][NextKey]_vars

(***************************************************************************)
(* PlaintextGenerator, BinaryPlaintextGenerator and                        *)
(* DictionaryPlaintextGenerator.  A word is a sequence of code points; the *)
(* object is [kind, args, err, min_data_size, max_data_size, words], with  *)
(* err the kind of the exception that ended the construction, or "".       *)
(***************************************************************************)
\* a variant of PlaintextGenerator.__init__ that does not compare the two bounds
PlaintextGenerator_init_unordered(min_data_size, max_data_size) ==
    IF min_data_size < 0 \/ max_data_size < 0
    THEN [err |-> "ConfigurationError", min_data_size |-> NoneVal,
          max_data_size |-> NoneVal]
    ELSE [err |-> "", min_data_size |-> min_data_size, max_data_size |-> max_data_size]

\* PlaintextGenerator.__init__: [err, min_data_size, max_data_size]
PlaintextGenerator_init(min_data_size, max_data_size) ==
    IF min_data_size < 0
    THEN [err |-> "ConfigurationError", min_data_size |-> NoneVal,
          max_data_size |-> NoneVal]
    ELSE IF max_data_size < 0
    THEN [err |-> "ConfigurationError", min_data_size |-> NoneVal,
          max_data_size |-> NoneVal]
    ELSE IF max_data_size < min_data_size
    THEN [err |-> "ConfigurationError", min_data_size |-> NoneVal,
          max_data_size |-> NoneVal]
    ELSE [err |-> "", min_data_size |-> min_data_size, max_data_size |-> max_data_size]

\* BinaryPlaintextGenerator(min_data_size, max_data_size)
BinaryPlaintextGenerator_init(min_data_size, max_data_size) ==
    LET base == PlaintextGenerator_init(min_data_size, max_data_size)
    IN [kind |-> "binary",
        args |-> [min_data_size |-> min_data_size, max_data_size |-> max_data_size,
                  words |-> <<>>],
        err |-> base.err, min_data_size |-> base.min_data_size,
        max_data_size |-> base.max_data_size, words |-> <<>>]

\* DictionaryPlaintextGenerator.__init__; words is what read_dict_file gives
DictionaryPlaintextGenerator_init(words, min_data_size, max_data_size) ==
    LET base == PlaintextGenerator_init(min_data_size, max_data_size)
    IN [kind |-> "dict",
        args |-> [min_data_size |-> min_data_size, max_data_size |-> max_data_size,
                  words |-> words],
        err |-> base.err, min_data_size |-> base.min_data_size,
        max_data_size |-> base.max_data_size,
        words |-> IF base.err = "" THEN words ELSE <<>>]

\* a variant of random.randint that may go one past b
randint_past(a, b) == a..(b + 1)
\* random.randint(a, b)
randint(a, b) == a..b
\* random.randint(0, 255): the outcomes considered
RandomBytes == {0, 255}

\* BinaryPlaintextGenerator.generate: the set of [err, data] it may end with
BinaryPlaintextGenerator_generate(g) ==
    {[err |-> "", data |-> result_data] :
        result_data \in UNION {[1..data_size -> RandomBytes] :
                                 data_size \in randint(g.min_data_size, g.max_data_size)}}

\* the separator that follows every word: " "
Separator == <<32>>

RECURSIVE dict_generate_loop(_, _, _)
\* DictionaryPlaintextGenerator.generate, the while loop: the texts it may end
\* with, and "ValueError" where random.randrange(0, 0) raises
dict_generate_loop(words, data_size, result_data_str) ==
    IF Len(result_data_str) >= data_size THEN {[err |-> "", text |-> result_data_str]}
    ELSE IF Len(words) = 0 THEN {[err |-> "ValueError", text |-> <<>>]}
    ELSE UNION {dict_generate_loop(words, data_size,
                                   result_data_str \o words[random_word] \o Separator) :
                  random_word \in 1..Len(words)}

\* DictionaryPlaintextGenerator.generate: the set of [err, data] it may end with
DictionaryPlaintextGenerator_generate(g) ==
    UNION {{[err |-> r.err, data |-> utf8(r.text)] :
              r \in dict_generate_loop(g.words, data_size, <<>>)} :
             data_size \in randint(g.min_data_size, g.max_data_size)}

(***************************************************************************)
(* SpecGen.  A plaintext generator is constructed and asked for plaintexts.*)
(***************************************************************************)
DataSizes == (-1)..MaxDataSize
\* "a", "bc", and a word of one character that takes three bytes in UTF-8
Vocabularies == {<<>>, <<<<97>>>>, <<<<97>>, <<98, 99>>>>, <<<<20013>>>>}

InitGen ==
    /\ backend = "Gen"
    /\ idleKeras
    /\ byteorder = "little"
    /\ object_fields = <<>>
    /\ fsys = <<>>
    /\ fd = <<>>
    /\ calls = <<>>
    /\ last = [op |-> "init", obj |-> 0, result |-> "ok"]
    /\ truncated = 0
    /\ idleInMem /\ idleSplit /\ idleEnc /\ idleTrain
    /\ \E min_data_size \in DataSizes, max_data_size \in DataSizes :
          \/ pg = BinaryPlaintextGenerator_init(min_data_size, max_data_size)
          \/ \E words \in Vocabularies :
                pg = DictionaryPlaintextGenerator_init(words, min_data_size, max_data_size)

PlaintextGenerator_generate ==
    /\ pg.err = ""
    /\ NumCalls("generate") < MaxGenerates
    /\ \E r \in IF pg.kind = "binary" THEN BinaryPlaintextGenerator_generate(pg)
                ELSE DictionaryPlaintextGenerator_generate(pg) :
          LET res == IF r.err = "" THEN "ok" ELSE r.err
          IN /\ calls' = Append(calls, [op |-> "generate", result |-> res, data |-> r.data])
             /\ last' = [op |-> "generate", obj |-> 0, result |-> res]
    /\ UNCHANGED <<backend, fileVars, inmemVars, splitVars, encVars, genVars, trainVars, kerasVars>>

NextGen == PlaintextGenerator_generate

SpecGen == InitGen /\ [][NextGen]_vars

(***************************************************************************)
(* TrainingDataGenerator.  The object is [num_of_records,                  *)
(* plaintext_generators, encryption_generators]; an entry of               *)
(* plaintext_generators is [plaintext_type, generator], an entry of        *)
(* encryption_generators is [encryption_method, block_mode, manager] with  *)
(* manager the place of an EncryptionManager in managers, or 0 for None.   *)
(* The output store is the InMemDatastore "A".  A run of generate_data is  *)
(* [managers, data, left, err, iters]: the managers, the queue and the     *)
(* pending count of the store, the exception that ended it, and what each  *)
(* iteration did.                                                          *)
(***************************************************************************)
PyLabel(s) == IF s = "None" THEN NoneVal ELSE [t |-> "str", v |-> s]
\* EncryptionDatastoreConstants.ALL_FIELDS_DEF
ALL_FIELDS_DEF == <<"plaintext_type", "plaintext", "encryption_method", "block_mode",
                    "encryption_key", "nonce", "iv", "ciphertext">>

\* a variant of the encrypting branch that reads the key after it has encrypted
generate_data_encrypt_key_after(m, plaintext, drawn, fresh) ==
    LET r == encrypt(m, plaintext, drawn, fresh)
    IN [err |-> r.err, encryption_key |-> PyBytes(get_key(r.m)),
        ciphertext |-> r.ciphertext, nonce |-> r.nonce, iv |-> r.iv, m |-> r.m]

\* generate_data, encryption_manager is not None: get_key(), then encrypt(plaintext)
generate_data_encrypt(m, plaintext, drawn, fresh) ==
    LET encryption_key == get_key(m)
        r == encrypt(m, plaintext, drawn, fresh)
    IN [err |-> r.err, encryption_key |-> PyBytes(encryption_key),
        ciphertext |-> r.ciphertext, nonce |-> r.nonce, iv |-> r.iv, m |-> r.m]

\* a variant of the branch without a manager that gives no ciphertext
generate_data_passthrough_none(plaintext) ==
    [encryption_key |-> NoneVal, ciphertext |-> NoneVal, nonce |-> NoneVal, iv |-> NoneVal]

\* generate_data, encryption_manager is None: ciphertext = plaintext
generate_data_passthrough(plaintext) ==
    [encryption_key |-> NoneVal, ciphertext |-> PyBytes(plaintext), nonce |-> NoneVal,
     iv |-> NoneVal]

\* the record generate_data hands to write_record
generate_data_record(plaintext_type, plaintext, entry, c) ==
    [plaintext_type |-> PyLabel(plaintext_type),
     plaintext |-> PyBytes(plaintext),
     encryption_method |-> PyLabel(entry.encryption_method),
     block_mode |-> PyLabel(entry.block_mode),
     encryption_key |-> c.encryption_key,
     nonce |-> c.nonce,
     iv |-> c.iv,
     ciphertext |-> c.ciphertext]

\* generator.generate() of an entry of plaintext_generators
generate(g) ==
    IF g.kind = "binary" THEN BinaryPlaintextGenerator_generate(g)
    ELSE DictionaryPlaintextGenerator_generate(g)

\* InMemDatastore.write_record on the output store, and the note of the iteration
generate_data_write(st, enc_index, record, managers_after) ==
    [st EXCEPT !.data = Append(st.data, record),
               !.left = st.left + 1,
               !.iters = Append(st.iters, [entry |-> enc_index, record |-> record,
                                           managers_before |-> st.managers,
                                           managers_after |-> managers_after]),
               !.managers = managers_after]

\* one pass of the loop of generate_data from the run st: the runs it may lead to
generate_data_iteration(g, st) ==
    IF Len(g.plaintext_generators) = 0 \/ Len(g.encryption_generators) = 0
    THEN {[st EXCEPT !.err = "ValueError"]}
    ELSE UNION {
      LET pt_entry == g.plaintext_generators[plaintext_type_index]
          entry == g.encryption_generators[encryption_generator_index]
      IN UNION {
           IF p.err # "" THEN {[st EXCEPT !.err = p.err]}
           ELSE IF entry.manager = 0
           THEN {generate_data_write(
                   st, encryption_generator_index,
                   generate_data_record(pt_entry.plaintext_type, p.data, entry,
                                        generate_data_passthrough(p.data)),
                   st.managers)}
           ELSE LET m == st.managers[entry.manager]
                IN {LET c == generate_data_encrypt(m, p.data, drawn, fresh)
                    IN IF c.err # "" THEN [st EXCEPT !.err = c.err]
                       ELSE generate_data_write(
                              st, encryption_generator_index,
                              generate_data_record(pt_entry.plaintext_type, p.data, entry, c),
                              [st.managers EXCEPT ![entry.manager] = c.m]) :
                      drawn \in get_random_bytes(m.encryption_key_size),
                      fresh \in FreshIvs}
           : p \in generate(pt_entry.generator)}
      : plaintext_type_index \in 1..Len(g.plaintext_generators),
        encryption_generator_index \in 1..Len(g.encryption_generators)}

RECURSIVE generate_data_loop(_, _, _, _)
\* for i in range(0, num_of_records): the runs after passes i, i + 1, ...; a run
\* that an exception has ended stays as it is
generate_data_loop(g, runs, i, num_of_records) ==
    IF i >= num_of_records THEN runs
    ELSE generate_data_loop(
           g,
           UNION {IF st.err # "" THEN {st} ELSE generate_data_iteration(g, st) : st \in runs},
           i + 1, num_of_records)

\* a variant of generate_data that leaves out the first pass of its loop
generate_data_skip_first(g, st) == generate_data_loop(g, {st}, 1, g.num_of_records)

\* TrainingDataGenerator.generate_data: the runs it may make from st
generate_data(g, st) == generate_data_loop(g, {st}, 0, g.num_of_records)

(***************************************************************************)
(* SpecTrain.  A TrainingDataGenerator writes to an InMemDatastore; its    *)
(* generate_data is called again and again.                                *)
(***************************************************************************)
ManagerArgs(method, size, key, bs, mode) ==
    [encryption_method |-> method, encryption_key_size |-> size, encryption_key |-> key,
     block_size |-> bs, block_mode |-> mode]
EncEntry(method, mode, manager) ==
    [encryption_method |-> method, block_mode |-> mode, manager |-> manager]
PtEntry(type, generator) == [plaintext_type |-> type, generator |-> generator]

\* the plaintext generators and encryption generators given to the constructor,
\* with the arguments of the managers among them
TrainSetups ==
    { \* one block cipher with a rotating key, as in ALL_AES_GENERATORS
      [plaintext_generators |-> <<PtEntry("binary", BinaryPlaintextGenerator_init(1, 1))>>,
       manager_args |-> <<ManagerArgs("AES", 16, NoneVal, 16, "CBC")>>,
       encryption_generators |-> <<EncEntry("AES", "CBC", 1)>>],
      \* a stream cipher with a short rotating key, and no cipher at all
      [plaintext_generators |->
          <<PtEntry("binary", BinaryPlaintextGenerator_init(0, 0)),
            PtEntry("dict", DictionaryPlaintextGenerator_init(<<<<97>>>>, 1, 2))>>,
       manager_args |-> <<ManagerArgs("SHIFT", 1, NoneVal, 2, "ECB")>>,
       encryption_generators |-> <<EncEntry("SHIFT", "ECB", 1), EncEntry("NONE", "None", 0)>>],
      \* a fixed key, and a manager whose encrypt fails
      [plaintext_generators |-> <<PtEntry("binary", BinaryPlaintextGenerator_init(1, 1))>>,
       manager_args |-> <<ManagerArgs("XOR", 2, PyBytes(<<3, 250>>), 2, "ECB"),
                          ManagerArgs("SHIFT", 1, NoneVal, 2, "CBC")>>,
       encryption_generators |-> <<EncEntry("XOR", "ECB", 1), EncEntry("SHIFT", "CBC", 2)>>],
      \* no cipher at all
      [plaintext_generators |->
          <<PtEntry("binary", BinaryPlaintextGenerator_init(1, 1)),
            PtEntry("dict", DictionaryPlaintextGenerator_init(<<<<97>>>>, 1, 2))>>,
       manager_args |-> <<>>,
       encryption_generators |-> <<EncEntry("NONE", "None", 0)>>] }

OutputStore == "A"

InitTrain ==
    /\ backend = "Train"
    /\ idleKeras
    /\ byteorder = "little"
    /\ object_fields = ALL_FIELDS_DEF
    /\ fsys = <<>>
    /\ fd = <<>>
    /\ calls = <<>>
    /\ last = [op |-> "init", obj |-> 0, result |-> "ok"]
    /\ truncated = 0
    /\ inmem_data = <<>>
    /\ num_of_records_left = [i \in {OutputStore} |-> 0]
    /\ idleSplit /\ idleEnc /\ idleGen
    /\ \E setup \in TrainSetups, num_of_records \in 0..MaxTrainRecords :
          /\ tg = [num_of_records |-> num_of_records,
                   plaintext_generators |-> setup.plaintext_generators,
                   encryption_generators |-> setup.encryption_generators,
                   manager_args |-> setup.manager_args]
          /\ managers \in [DOMAIN setup.manager_args ->
                             UNION {{EncryptionManager_init(a, drawn) :
                                       drawn \in get_random_bytes(a.encryption_key_size)} :
                                      a \in {setup.manager_args[k] : k \in DOMAIN setup.manager_args}}]
          /\ \A k \in DOMAIN managers :
                \E drawn \in get_random_bytes(setup.manager_args[k].encryption_key_size) :
                   managers[k] = EncryptionManager_init(setup.manager_args[k], drawn)

TrainingDataGenerator_generate_data ==
    /\ NumCalls("generate_data") < MaxGenerateDataCalls
    /\ Len(inmem_data) + tg.num_of_records <= MaxTrainRecords
    /\ \E run \in generate_data(tg, [managers |-> managers, data |-> inmem_data,
                                     left |-> num_of_records_left[OutputStore],
                                     err |-> "", iters |-> <<>>]) :
          LET res == IF run.err = "" THEN "ok" ELSE run.err
          IN /\ managers' = run.managers
             /\ inmem_data' = run.data
             /\ num_of_records_left' = [num_of_records_left EXCEPT ![OutputStore] = run.left]
             /\ calls' = Append(calls, [op |-> "generate_data", result |-> res,
                                        pending_before |-> num_of_records_left[OutputStore],
                                        pending_after |-> run.left,
                                        iters |-> run.iters])
             /\ last' = [op |-> "generate_data", obj |-> 0, result |-> res]
    /\ UNCHANGED <<backend, fileVars, splitVars, encVars, genVars, tg, kerasVars>>

NextTrain == TrainingDataGenerator_generate_data

SpecTrain == InitTrain /\ [][NextTrain]_vars

(***************************************************************************)
(* SpecBackends.  The same records are written to an InMemDatastore, to a  *)
(* FileDatastore and to a SplitFilesDatastore; then the stores are closed  *)
(* and everything is read back: the InMemDatastore by read_all, the file   *)
(* and the shards, in the order of their numbers, by read_all of a new     *)
(* FileDatastore opened for reading.                                       *)
(***************************************************************************)
\* a variant of read_all on an InMemDatastore that stops after the first record
inmem_read_all_once(data, left, results) ==
    IF left = 0 \/ data = <<>> THEN [results |-> results, data |-> data, left |-> left]
    ELSE [results |-> Append(results, Head(data)), data |-> Tail(data), left |-> left - 1]

RECURSIVE inmem_read_all(_, _, _)
\* BaseDatastore.read_all on an InMemDatastore: read_next_record until it gives None
inmem_read_all(data, left, results) ==
    IF left = 0 \/ data = <<>> THEN [results |-> results, data |-> data, left |-> left]
    ELSE inmem_read_all(Tail(data), left - 1, Append(results, Head(data)))

RECURSIVE shards_read_all(_, _, _, _, _)
\* read_all of the shards k, k + 1, ..., one after the other
shards_read_all(files, k, last_shard, fields, order) ==
    IF k > last_shard THEN <<>>
    ELSE read_all(files[k], fields, order).results
            \o shards_read_all(files, k + 1, last_shard, fields, order)

BackendFields == <<"f1", "f2">>
\* f1 absent, None, an empty or a one-character text, an empty or a one-byte
\* binary; f2 None or a byte
BackendValues == {NoneVal, PyStr(<<>>), PyStr(<<233>>), PyBytes(<<>>), PyBytes(<<1>>)}
BackendRecords ==
    {[f2 |-> PyBytes(<<1>>)]}
      \cup {r \in [{"f1", "f2"} -> BackendValues] : r["f2"] \in {NoneVal, PyBytes(<<1>>)}}

InitBackends ==
    /\ backend = "Backends"
    /\ idleKeras
    /\ byteorder \in ByteOrders
    /\ object_fields = BackendFields
    /\ fsys = (FilePath :> <<>>)
    /\ fd = <<FileDatastore_init(FilePath, "wb", 0)>>
    /\ calls = <<>>
    /\ last = [op |-> "init", obj |-> 0, result |-> "ok"]
    /\ truncated = 0
    /\ inmem_data = <<>>
    /\ num_of_records_left = [i \in {OutputStore} |-> 0]
    /\ num_of_records_pre_file \in 1..MaxShardSize
    /\ curr_file_datastore = 0
    /\ curr_index = 0
    /\ split_closed = FALSE
    /\ idleEnc /\ idleGen /\ idleTrain

\* write_record(record_data) on each of the three stores
Backends_write_record(record_data) ==
    /\ last.op # "read_all"
    /\ NumCalls("write") < MaxBackendRecords
    /\ LET f == BinaryDatastore_write_record([fd |-> fd, fsys |-> fsys, err |-> ""], 1,
                                             object_fields, record_data, byteorder)
           s1 == next_shard([fd |-> f.fd, fsys |-> f.fsys, err |-> ""], curr_file_datastore,
                            curr_index, num_of_records_pre_file)
           s2 == BinaryDatastore_write_record([fd |-> s1.fd, fsys |-> s1.fsys, err |-> ""],
                     s1.cur, object_fields, record_data, byteorder)
           res == IF f.err # "" THEN f.err ELSE IF s2.err # "" THEN s2.err ELSE "ok"
       IN /\ inmem_data' = Append(inmem_data, record_data)
          /\ num_of_records_left' = [num_of_records_left EXCEPT ![OutputStore] = @ + 1]
          /\ curr_file_datastore' = s1.cur
          /\ fd' = s2.fd
          /\ fsys' = s2.fsys
          /\ curr_index' = IF s2.err = "" THEN curr_index + 1 ELSE curr_index
          /\ calls' = Append(calls, [op |-> "write", obj |-> 0, rec |-> record_data,
                                     result |-> res])
          /\ last' = [op |-> "write_record", obj |-> 0, result |-> res]
    /\ UNCHANGED <<backend, byteorder, object_fields, truncated, encVars, genVars, trainVars, kerasVars,
                   num_of_records_pre_file, split_closed>>

\* close() of the file and of the shards, then read_all of every store
Backends_read_all ==
    /\ last.op # "read_all"
    /\ LET closed == IF curr_file_datastore # 0
                     THEN close(close(fd, 1), curr_file_datastore) ELSE close(fd, 1)
           mem == inmem_read_all(inmem_data, num_of_records_left[OutputStore], <<>>)
           file == read_all(fsys[FilePath], object_fields, byteorder)
           shards == shards_read_all(fsys, 1, Cardinality(DOMAIN fsys) - 1, object_fields,
                                     byteorder)
       IN /\ fd' = closed
          /\ split_closed' = TRUE
          /\ inmem_data' = mem.data
          /\ num_of_records_left' = [num_of_records_left EXCEPT ![OutputStore] = mem.left]
          /\ calls' = Append(calls, [op |-> "read_all", obj |-> 0, rec |-> EmptyRec,
                                     result |-> IF file.err = "" THEN "ok" ELSE file.err,
                                     inmem |-> mem.results, file |-> file.results,
                                     shards |-> shards])
          /\ last' = [op |-> "read_all", obj |-> 0,
                      result |-> IF file.err = "" THEN "ok" ELSE file.err]
    /\ UNCHANGED <<backend, byteorder, object_fields, fsys, truncated, encVars, genVars,
                   trainVars, kerasVars, num_of_records_pre_file, curr_file_datastore, curr_index>>

NextBackends ==
    \/ \E r \in BackendRecords : Backends_write_record(r)
    \/ Backends_read_all

SpecBackends == InitBackends /\ [][NextBackends]_vars

(***************************************************************************)
(* SpecMaxSize.  The encoder with its buffer of __MAX_RECORD_SIZE bytes,   *)
(* as the code has it, on records whose encoding is about that long.       *)
(***************************************************************************)
MAX_RECORD_SIZE == 1048576

\* bytearray(n): n zero bytes
bytearray(n) == [i \in 1..n |-> 0]

\* result[a:b] = data on a bytearray, for a <= b: the slice is clamped to the
\* buffer, so an assignment that reaches past its end makes it longer
slice_assign(result, a, b, data) ==
    Slice(result, 0, a) \o data \o Slice(result, b, Len(result))

RECURSIVE record_data_to_bin_buffer_loop(_, _, _, _, _)
\* BinaryDatastore.__record_data_to_bin, the loop over object_fields, on the
\* buffer result and the place index in it
record_data_to_bin_buffer_loop(fields, record_data, order, result, index) ==
    IF fields = <<>> THEN [err |-> "", bin |-> Slice(result, 0, index)]
    ELSE
        LET field_name == Head(fields)
            field_data == IF field_name \in DOMAIN record_data
                          THEN record_data[field_name] ELSE NoneVal
        IN IF field_data.t # "NoneType"
           THEN IF field_data.t \notin {"str", "bytes"}
                THEN [err |-> "ConfigurationError", bin |-> <<>>]
                ELSE LET data == IF field_data.t = "str" THEN utf8(field_data.v)
                                 ELSE field_data.v
                         field_size == Len(data)
                         r1 == slice_assign(result, index, index + LEN_FIELD_SIZE,
                                            to_bytes(field_size, order))
                         r2 == slice_assign(r1, index + LEN_FIELD_SIZE,
                                            index + LEN_FIELD_SIZE + field_size, data)
                     IN record_data_to_bin_buffer_loop(
                           Tail(fields), record_data, order, r2,
                           index + LEN_FIELD_SIZE + field_size)
           ELSE record_data_to_bin_buffer_loop(
                   Tail(fields), record_data, order,
                   slice_assign(result, index, index + LEN_FIELD_SIZE, to_bytes(0, order)),
                   index + LEN_FIELD_SIZE)

\* BinaryDatastore.__record_data_to_bin
record_data_to_bin_buffer(fields, record_data, order) ==
    record_data_to_bin_buffer_loop(fields, record_data, order,
                                   bytearray(MAX_RECORD_SIZE), 0)

\* BinaryDatastore.write_record, with the encoder on its buffer
BinaryDatastore_write_record_buffer(st, o, fields, record_data, order) ==
    LET record_bin_data == record_data_to_bin_buffer(fields, record_data, order)
    IN IF record_bin_data.err # ""
       THEN [st EXCEPT !.err = record_bin_data.err]
       ELSE LET s1 == write_internal(st, o, to_bytes(Len(record_bin_data.bin), order))
            IN IF s1.err # "" THEN s1 ELSE write_internal(s1, o, record_bin_data.bin)

\* The bytes of a file of this size are kept in the state as runs of equal bytes,
\* <<[byte, count], ...>>; every operation is done on the bytes themselves.
run_starts(bytes) == {i \in 1..Len(bytes) : i = 1 \/ bytes[i] # bytes[i - 1]}
runs_of(bytes) ==
    LET starts == run_starts(bytes)
        start(k) == CHOOSE i \in starts : Cardinality({j \in starts : j < i}) = k - 1
    IN [k \in 1..Cardinality(starts) |->
          [byte |-> bytes[start(k)],
           count |-> (IF k = Cardinality(starts) THEN Len(bytes) + 1 ELSE start(k + 1))
                        - start(k)]]
RECURSIVE bytes_of(_)
bytes_of(runs) ==
    IF runs = <<>> THEN <<>>
    ELSE [i \in 1..Head(runs).count |-> Head(runs).byte] \o bytes_of(Tail(runs))

\* sizes of a value of f1: empty, short, one for which the record's encoding, with
\* its two length fields, is of __MAX_RECORD_SIZE bytes, and one for which it is more
BigFieldSizes ==
    {0, 1, MAX_RECORD_SIZE - 2 * LEN_FIELD_SIZE, MAX_RECORD_SIZE}
BigRecords ==
    {[f1 |-> PyBytes(bytearray(n)), f2 |-> v] :
        n \in BigFieldSizes, v \in {NoneVal, PyBytes(<<1>>)}}

InitMaxSize ==
    /\ backend = "MaxSize"
    /\ idleKeras
    /\ byteorder \in ByteOrders
    /\ object_fields = BackendFields
    /\ fsys = (FilePath :> <<>>)
    /\ fd = <<FileDatastore_init(FilePath, "wb", 0)>>
    /\ calls = <<>>
    /\ last = [op |-> "init", obj |-> 0, result |-> "ok"]
    /\ truncated = 0
    /\ idleInMem /\ idleSplit /\ idleEnc /\ idleGen /\ idleTrain

MaxSize_write_record(record_data) ==
    /\ NumCalls("write") < MaxBigRecords
    /\ LET s == BinaryDatastore_write_record_buffer(
                   [fd |-> fd, fsys |-> [p \in DOMAIN fsys |-> bytes_of(fsys[p])],
                    err |-> ""],
                   1, object_fields, record_data, byteorder)
           res == IF s.err = "" THEN "ok" ELSE s.err
       IN /\ fd' = s.fd
          /\ fsys' = [p \in DOMAIN s.fsys |-> runs_of(s.fsys[p])]
          /\ calls' = Append(calls, [op |-> "write", obj |-> 1, result |-> res,
                                     field_size |-> Len(record_data["f1"].v),
                                     f2 |-> record_data["f2"]])
          /\ last' = [op |-> "write_record", obj |-> 1, result |-> res]
    /\ UNCHANGED <<backend, byteorder, object_fields, truncated, inmemVars, splitVars,
                   encVars, genVars, trainVars, kerasVars>>

NextMaxSize == \E r \in BigRecords : MaxSize_write_record(r)

SpecMaxSize == InitMaxSize /\ [][NextMaxSize]_vars

(***************************************************************************)
(* SpecAutoflush.  One FileDatastore opened for writing with an autoflush  *)
(* threshold takes write_record calls.  A call's entry lists the length of *)
(* the file at each flush made during the call and at the call's return.   *)
(***************************************************************************)
AutoflushThresholds == 0..3
AutoflushRecords == {[f1 |-> PyBytes(<<1>>)], [f1 |-> NoneVal], [f1 |-> PyInt]}

\* the length of the file at the flush of a write_internal call, if it made one
flush_point(before, after, o) ==
    IF after.fd[o].flush_calls > before.fd[o].flush_calls
    THEN <<Len(after.fsys[after.fd[o].path])>>
    ELSE <<>>

\* the flushes made by the two write_internal calls of write_record
write_record_flush_points(st, o, fields, record_data, order) ==
    LET record_bin_data == record_data_to_bin(fields, record_data, order)
    IN IF record_bin_data.err # "" THEN <<>>
       ELSE LET s1 == write_internal(st, o, to_bytes(Len(record_bin_data.bin), order))
                s2 == write_internal(s1, o, record_bin_data.bin)
            IN IF s1.err # "" THEN <<>>
               ELSE flush_point(st, s1, o) \o flush_point(s1, s2, o)

InitAutoflush ==
    /\ backend = "Autoflush"
    /\ idleKeras
    /\ byteorder \in ByteOrders
    /\ object_fields = <<"f1">>
    /\ fsys = (FilePath :> <<>>)
    /\ \E a \in AutoflushThresholds : fd = <<FileDatastore_init(FilePath, "wb", a)>>
    /\ calls = <<>>
    /\ last = [op |-> "init", obj |-> 1, result |-> "ok"]
    /\ truncated = 0
    /\ idleInMem /\ idleSplit /\ idleEnc /\ idleGen /\ idleTrain

Autoflush_write_record(record_data) ==
    /\ NumCalls("write") < MaxAutoflushRecords
    /\ LET st0 == [fd |-> fd, fsys |-> fsys, err |-> ""]
           st == BinaryDatastore_write_record(st0, 1, object_fields, record_data, byteorder)
           res == IF st.err = "" THEN "ok" ELSE st.err
       IN /\ fd' = st.fd
          /\ fsys' = st.fsys
          /\ calls' = Append(calls,
                 [op |-> "write", obj |-> 1, rec |-> record_data, result |-> res,
                  flush_points |-> write_record_flush_points(st0, 1, object_fields,
                                                             record_data, byteorder),
                  size_after |-> Len(st.fsys[FilePath])])
          /\ last' = [op |-> "write_record", obj |-> 1, result |-> res]
    /\ UNCHANGED <<backend, byteorder, object_fields, truncated, inmemVars, splitVars,
                   encVars, genVars, trainVars, kerasVars>>

NextAutoflush == \E r \in AutoflushRecords : Autoflush_write_record(r)

SpecAutoflush == InitAutoflush /\ [][NextAutoflush]_vars

(***************************************************************************)
(* SpecOnline.  A KerasOnlineDataGenerator: its output store is the        *)
(* InMemDatastore "A" and its TrainingDataGenerator writes batch_size      *)
(* records per call.  The process holds a second InMemDatastore, "B",      *)
(* which takes write_record calls of its own.                              *)
(***************************************************************************)
OtherStore == "B"
\* a record that no generate_data of the setups produces
OtherRecords ==
    {generate_data_record("binary", <<9>>, EncEntry("NONE", "None", 0),
                          generate_data_passthrough(<<9>>))}

\* KerasOnlineDataGenerator.__len__
KerasOnlineDataGenerator_len == 1

\* KerasOnlineDataGenerator.get_items_internal: generate_data(), then read_all() of
\* the output store; [run, returned] for each run generate_data may make
get_items_internal(g, st) ==
    {IF run.err # "" THEN [run |-> run, returned |-> <<>>]
     ELSE LET r == inmem_read_all(run.data, run.left, <<>>)
          IN [run |-> [run EXCEPT !.data = r.data, !.left = r.left],
              returned |-> r.results] :
       run \in generate_data(g, st)}

InitOnline ==
    /\ backend = "Online"
    /\ idleKeras
    /\ byteorder = "little"
    /\ object_fields = ALL_FIELDS_DEF
    /\ fsys = <<>>
    /\ fd = <<>>
    /\ calls = <<>>
    /\ last = [op |-> "init", obj |-> 0, result |-> "ok"]
    /\ truncated = 0
    /\ inmem_data = <<>>
    /\ num_of_records_left = [i \in {OutputStore, OtherStore} |-> 0]
    /\ idleSplit /\ idleEnc /\ idleGen
    /\ \E setup \in TrainSetups, batch_size \in 0..MaxTrainRecords :
          /\ tg = [num_of_records |-> batch_size,
                   plaintext_generators |-> setup.plaintext_generators,
                   encryption_generators |-> setup.encryption_generators,
                   manager_args |-> setup.manager_args]
          /\ managers \in [DOMAIN setup.manager_args ->
                             UNION {{EncryptionManager_init(a, drawn) :
                                       drawn \in get_random_bytes(a.encryption_key_size)} :
                                      a \in {setup.manager_args[k] : k \in DOMAIN setup.manager_args}}]
          /\ \A k \in DOMAIN managers :
                \E drawn \in get_random_bytes(setup.manager_args[k].encryption_key_size) :
                   managers[k] = EncryptionManager_init(setup.manager_args[k], drawn)

RECURSIVE records_generated(_)
\* the number of records that the get_items_internal calls i, i + 1, ... generated
records_generated(i) ==
    IF i > Len(calls) THEN 0
    ELSE (IF calls[i].op = "get_items_internal" THEN Len(calls[i].generated) ELSE 0)
            + records_generated(i + 1)

KerasOnlineDataGenerator_get_items_internal ==
    /\ NumCalls("get_items_internal") < MaxOnlineCalls
    /\ records_generated(1) + tg.num_of_records <= MaxTrainRecords
    /\ \E g \in get_items_internal(tg, [managers |-> managers, data |-> inmem_data,
                                        left |-> num_of_records_left[OutputStore],
                                        err |-> "", iters |-> <<>>]) :
          LET res == IF g.run.err = "" THEN "ok" ELSE g.run.err
          IN /\ managers' = g.run.managers
             /\ inmem_data' = g.run.data
             /\ num_of_records_left' =
                   [num_of_records_left EXCEPT ![OutputStore] = g.run.left]
             /\ calls' = Append(calls,
                   [op |-> "get_items_internal", result |-> res,
                    returned |-> g.returned,
                    generated |-> [k \in DOMAIN g.run.iters |-> g.run.iters[k].record],
                    pending_after |-> g.run.left])
             /\ last' = [op |-> "get_items_internal", obj |-> 0, result |-> res]
    /\ UNCHANGED <<backend, fileVars, splitVars, encVars, genVars, tg, kerasVars>>

KerasOnlineDataGenerator_call_len ==
    /\ last.op # "__len__"
    /\ last' = [op |-> "__len__", obj |-> 0, result |-> "ok",
                value |-> KerasOnlineDataGenerator_len]
    /\ UNCHANGED <<backend, fileVars, calls, inmemVars, splitVars, encVars, genVars,
                   trainVars, kerasVars>>

\* InMemDatastore.write_record on the other store
Online_other_write_record(record_data) ==
    /\ NumCalls("write") < MaxOtherWrites
    /\ inmem_data' = Append(inmem_data, record_data)
    /\ num_of_records_left' = [num_of_records_left EXCEPT ![OtherStore] = @ + 1]
    /\ calls' = Append(calls, [op |-> "write", obj |-> OtherStore, rec |-> record_data,
                               result |-> "ok"])
    /\ last' = [op |-> "write_record", obj |-> OtherStore, result |-> "ok"]
    /\ UNCHANGED <<backend, fileVars, splitVars, encVars, genVars, trainVars, kerasVars>>

NextOnline ==
    \/ KerasOnlineDataGenerator_get_items_internal
    \/ KerasOnlineDataGenerator_call_len
    \/ \E r \in OtherRecords : Online_other_write_record(r)

SpecOnline == InitOnline /\ [][NextOnline]_vars

(***************************************************************************)
(* SpecShards.  A SplitFilesDatastore writes shards into an empty          *)
(* directory and is closed; then a KerasFromFilesDataGenerator is made     *)
(* over the directory and asked for its length and its batches.  kg is the *)
(* generator: <<>> before it is made, then [num_of_files].                 *)
(***************************************************************************)
\* a record as generate_data writes it without a cipher; text as code points
shard_record(plaintext_type, plaintext) ==
    [plaintext_type |-> PyStr(plaintext_type), plaintext |-> PyBytes(plaintext),
     encryption_method |-> PyStr(<<78>>), block_mode |-> NoneVal,
     encryption_key |-> NoneVal, nonce |-> NoneVal, iv |-> NoneVal,
     ciphertext |-> PyBytes(plaintext)]
ShardRecords ==
    {shard_record(<<98>>, <<0>>), shard_record(<<100>>, <<97, 32>>),
     [shard_record(<<98>>, <<0>>) EXCEPT !["ciphertext"] = PyInt]}
\* the schema of the SplitFilesDatastore
ShardSchemas == {ALL_FIELDS_DEF, <<"ciphertext">>}

\* KerasFromFilesDataGenerator.__init__: the files of the directory whose names
\* start with the prefix and end with the postfix are counted
KerasFromFilesDataGenerator_init(files) == [num_of_files |-> Cardinality(DOMAIN files)]

\* a variant of the file name of a batch that numbers the files from 0
batch_file_zero_based(index) == index

\* file_name_prefix + str(index + 1) + file_name_postfix
batch_file(index) == index + 1

\* KerasFromFilesDataGenerator.get_items_internal: [err, results]
files_get_items_internal(files, index, order) ==
    LET file == batch_file(index)
    IN IF file \notin DOMAIN files
       THEN [err |-> "FileNotFoundError", results |-> <<>>]
       ELSE read_all(files[file], ALL_FIELDS_DEF, order)

InitShards ==
    /\ backend = "Split"
    /\ byteorder \in ByteOrders
    /\ object_fields \in ShardSchemas
    /\ fsys = <<>>
    /\ fd = <<>>
    /\ calls = <<>>
    /\ last = [op |-> "init", obj |-> 0, result |-> "ok"]
    /\ truncated = 0
    /\ idleInMem /\ idleEnc /\ idleGen /\ idleTrain
    /\ kg = <<>>
    /\ num_of_records_pre_file \in 1..MaxShardSize
    /\ curr_file_datastore = 0
    /\ curr_index = 0
    /\ split_closed = FALSE

\* the store was closed and has not been written to since
ShardsClosed ==
    /\ split_closed
    /\ curr_file_datastore # 0 => fd[curr_file_datastore].closed

Shards_write_record == kg = <<>> /\ \E r \in ShardRecords : SplitFilesDatastore_write_record(r)

Shards_close == kg = <<>> /\ SplitFilesDatastore_close

KerasFromFilesDataGenerator_new ==
    /\ kg = <<>>
    /\ ShardsClosed
    /\ kg' = KerasFromFilesDataGenerator_init(fsys)
    /\ last' = [op |-> "KerasFromFilesDataGenerator", obj |-> 0, result |-> "ok"]
    /\ UNCHANGED <<backend, fileVars, calls, inmemVars, splitVars, encVars, genVars,
                   trainVars>>

KerasFromFilesDataGenerator_get_items_internal(index) ==
    /\ kg # <<>>
    /\ LET r == files_get_items_internal(fsys, index, byteorder)
       IN last' = [op |-> "get_items_internal", obj |-> 0,
                   result |-> IF r.err = "" THEN "ok" ELSE r.err,
                   index |-> index, returned |-> r.results]
    /\ UNCHANGED <<backend, fileVars, calls, inmemVars, splitVars, encVars, genVars,
                   trainVars, kerasVars>>

\* KerasFromFilesDataGenerator.__len__
KerasFromFilesDataGenerator_len ==
    /\ kg # <<>>
    /\ last' = [op |-> "__len__", obj |-> 0, result |-> "ok", value |-> kg.num_of_files]
    /\ UNCHANGED <<backend, fileVars, calls, inmemVars, splitVars, encVars, genVars,
                   trainVars, kerasVars>>

NextShards ==
    \/ Shards_write_record
    \/ Shards_close
    \/ KerasFromFilesDataGenerator_new
    \/ \E index \in 0..MaxSplitRecords : KerasFromFilesDataGenerator_get_items_internal(index)
    \/ KerasFromFilesDataGenerator_len

SpecShards == InitShards /\ [][NextShards]_vars

(***************************************************************************)
(* SpecChunks.  A reader over an arbitrary byte stream on a medium that    *)
(* gives, at each read, any number of the bytes asked for, at least one    *)
(* unless the stream is at its end.  A run of read_internal is             *)
(* [err, data, chunks]: chunks are the lengths of what the reads gave.     *)
(***************************************************************************)
\* the chunks that self.__file_handle.read(n) may give at position at
medium_read(file, at, n) ==
    IF n <= 0 \/ at >= Len(file) THEN {<<>>}
    ELSE {Slice(file, at, at + k) : k \in 1..Min(n, Len(file) - at)}

\* a variant of the loop of read_internal that returns what its first read gave
read_internal_chunked_once(file, pos, read_len, data, chunks) ==
    IF Len(data) < read_len
    THEN {[err |-> "", data |-> data \o chunk, chunks |-> Append(chunks, Len(chunk))] :
            chunk \in medium_read(file, pos + Len(data), read_len - Len(data))}
    ELSE {[err |-> "", data |-> data, chunks |-> chunks]}

RECURSIVE read_internal_chunked_loop(_, _, _, _, _)
\* the loop of read_internal: the runs it may make
read_internal_chunked_loop(file, pos, read_len, data, chunks) ==
    IF Len(data) < read_len
    THEN UNION {
           IF chunk = <<>>
           THEN {[err |-> "", data |-> data, chunks |-> Append(chunks, 0)]}
           ELSE read_internal_chunked_loop(file, pos, read_len, data \o chunk,
                                           Append(chunks, Len(chunk))) :
             chunk \in medium_read(file, pos + Len(data), read_len - Len(data))}
    ELSE {[err |-> "", data |-> data, chunks |-> chunks]}

\* FileDatastore.read_internal on the chunking medium
read_internal_chunked(obj, file, read_len) ==
    IF read_len > 0 /\ (obj.closed \/ obj.mode # "rb")
    THEN {[err |-> "ValueError", data |-> <<>>, chunks |-> <<>>]}
    ELSE read_internal_chunked_loop(file, obj.pos, read_len, <<>>, <<>>)

\* the note of a read_internal call: what was asked, where, and its run
read_note(pos, read_len, run) ==
    [pos |-> pos, read_len |-> read_len, data |-> run.data, chunks |-> run.chunks]

\* BinaryDatastore.read_next_record after its first read_internal gave the run h:
\* [result, rec, pos, reads] for each run the second read_internal may make
read_next_record_chunked_payload(obj, file, fields, order, h) ==
    LET pos1 == obj.pos + Len(h.data)
        record_size == from_bytes(h.data, order)
        note1 == read_note(obj.pos, LEN_FIELD_SIZE, h)
    IN IF h.err # ""
       THEN {[result |-> h.err, rec |-> EmptyRec, pos |-> obj.pos, reads |-> <<>>]}
       ELSE IF Len(h.data) = 0
       THEN {[result |-> "None", rec |-> EmptyRec, pos |-> pos1, reads |-> <<note1>>]}
       ELSE IF Len(h.data) < LEN_FIELD_SIZE
       THEN {[result |-> "CorruptionError", rec |-> EmptyRec, pos |-> pos1,
              reads |-> <<note1>>]}
       ELSE {LET pos2 == pos1 + Len(b.data)
                 notes == <<note1, read_note(pos1, record_size, b)>>
             IN IF b.err # ""
                THEN [result |-> b.err, rec |-> EmptyRec, pos |-> pos1, reads |-> <<note1>>]
                ELSE IF Len(b.data) # record_size
                THEN [result |-> "CorruptionError", rec |-> EmptyRec, pos |-> pos2,
                      reads |-> notes]
                ELSE [result |-> "record",
                      rec |-> bin_to_record_data(fields, b.data, order),
                      pos |-> pos2, reads |-> notes] :
               b \in read_internal_chunked([obj EXCEPT !.pos = pos1], file, record_size)}

\* BinaryDatastore.read_next_record on the chunking medium
read_next_record_chunked(obj, file, fields, order) ==
    UNION {read_next_record_chunked_payload(obj, file, fields, order, h) :
             h \in read_internal_chunked(obj, file, LEN_FIELD_SIZE)}

\* the streams read: a header may announce a payload of two bytes
ChunkBytes == {0, 1, 2}
ChunkStreams == UNION {[1..n -> ChunkBytes] : n \in 0..MaxStreamLen}

InitChunks ==
    /\ backend = "Chunks"
    /\ idleKeras
    /\ byteorder \in ByteOrders
    /\ object_fields = <<"f1">>
    /\ \E s \in ChunkStreams : fsys = (FilePath :> s)
    /\ fd = <<FileDatastore_init(FilePath, "rb", 0)>>
    /\ calls = <<>>
    /\ last = [op |-> "init", obj |-> 1, result |-> "ok"]
    /\ truncated = 0
    /\ idleInMem /\ idleSplit /\ idleEnc /\ idleGen /\ idleTrain

Chunks_read_next_record ==
    /\ NumCalls("read") < MaxReads
    /\ \E r \in read_next_record_chunked(fd[1], fsys[FilePath], object_fields, byteorder) :
          /\ fd' = [fd EXCEPT ![1].pos = r.pos]
          /\ calls' = Append(calls, [op |-> "read", obj |-> 1, rec |-> r.rec,
                                     result |-> r.result, pos_before |-> fd[1].pos,
                                     reads |-> r.reads])
          /\ last' = [op |-> "read_next_record", obj |-> 1, result |-> r.result]
    /\ UNCHANGED <<backend, byteorder, object_fields, fsys, truncated, inmemVars,
                   splitVars, encVars, genVars, trainVars, kerasVars>>

NextChunks == Chunks_read_next_record

SpecChunks == InitChunks /\ [][NextChunks]_vars

(***************************************************************************)
(* Properties of the File store.                                           *)
(***************************************************************************)
Range(f) == {f[x] : x \in DOMAIN f}
OkWrites == SelectSeq(calls, LAMBDA c : c.op = "write" /\ c.result = "ok")
Reads == SelectSeq(calls, LAMBDA c : c.op = "read")
IsTextOrBinary(v) == v.t \in {"str", "bytes"}
\* the bytes a caller's value stands for: a text by its UTF-8 bytes
BytesOf(v) == IF v.t = "str" THEN utf8(v.v) ELSE v.v
\* the fields of a written record that a reader is to see: the schema's fields that
\* hold a text or a binary value of at least one byte
Readable(rec) ==
    {f \in DOMAIN rec \cap Range(object_fields) :
        IsTextOrBinary(rec[f]) /\ BytesOf(rec[f]) # <<>>}
ReadBack(rec) == [f \in Readable(rec) |-> PyByteArray(BytesOf(rec[f]))]

\* C1 as stated: a record of the schema's fields whose values are each text or
\* binary (of any length) is read back by a fresh reader with exactly the fields
\* written, each byte-identical.
C1_RoundTripAnyLength ==
    truncated = 0 =>
        \A i \in 1..Len(Reads) :
            (/\ i <= Len(OkWrites)
             /\ DOMAIN OkWrites[i].rec \subseteq Range(object_fields)
             /\ \A f \in DOMAIN OkWrites[i].rec : IsTextOrBinary(OkWrites[i].rec[f]))
            => /\ Reads[i].result = "record"
               /\ DOMAIN Reads[i].rec = DOMAIN OkWrites[i].rec
               /\ \A f \in DOMAIN OkWrites[i].rec :
                      Reads[i].rec[f].v = BytesOf(OkWrites[i].rec[f])

\* C1 amended: the i-th record read by a fresh reader holds exactly the schema's
\* fields that the i-th written record gave a text or binary value of at least one
\* byte, each byte-identical to the written value; fields absent on write, holding
\* None or an empty value, or not in the schema, are absent on read.
C1_RoundTrip ==
    truncated = 0 =>
        \A i \in 1..Len(Reads) :
            i <= Len(OkWrites) =>
                /\ Reads[i].result = "record"
                /\ Reads[i].rec = ReadBack(OkWrites[i].rec)

\* a two-byte text value and a binary value were written and have been read back
C1_Witness ==
    /\ truncated = 0
    /\ \E i \in 1..Len(Reads) :
          /\ i <= Len(OkWrites)
          /\ OkWrites[i].rec = [f1 |-> PyStr(<<233>>), f2 |-> PyBytes(<<1>>)]
          /\ Reads[i].rec = [f1 |-> PyByteArray(<<195, 169>>), f2 |-> PyByteArray(<<1>>)]

\* C4: with the last 1..3 bytes of a file of N >= 1 records removed, the first N-1
\* reads return the first N-1 records and the N-th read fails with CorruptionError
\* (it returns neither a record nor end-of-stream).
C4_CorruptionDetection ==
    truncated > 0 =>
        \A i \in 1..Len(Reads) :
            /\ i < Len(OkWrites) =>
                  /\ Reads[i].result = "record"
                  /\ Reads[i].rec = ReadBack(OkWrites[i].rec)
            /\ i = Len(OkWrites) => Reads[i].result = "CorruptionError"

\* a file of two records was cut and both reads have been made
C4_Witness ==
    /\ truncated > 0
    /\ Len(OkWrites) = 2
    /\ Len(Reads) >= 2
    /\ Reads[1].result = "record"
    /\ Reads[2].result = "CorruptionError"

\* C5: read_next_record returns end-of-stream iff no byte remains where the header
\* is expected, fails with CorruptionError iff 1..3 bytes remain or fewer bytes than
\* the header announces follow it, and returns a record in every other case.
C5_EndOfStream ==
    [][calls' # calls =>
        LET file == fsys[FilePath]
            pos == fd[1].pos
            remaining == Len(file) - pos
            announced == from_bytes(Slice(file, pos, pos + LEN_FIELD_SIZE), byteorder)
            res == calls'[Len(calls')].result
        IN /\ res = "None" <=> remaining = 0
           /\ res = "CorruptionError" <=>
                 \/ remaining \in 1..(LEN_FIELD_SIZE - 1)
                 \/ remaining >= LEN_FIELD_SIZE /\ remaining - LEN_FIELD_SIZE < announced
           /\ res = "record" <=>
                 remaining >= LEN_FIELD_SIZE /\ remaining - LEN_FIELD_SIZE >= announced
    ]_vars

\* one stream gave a record, then a CorruptionError, then end-of-stream
C5_Witness ==
    /\ backend = "Stream"
    /\ Len(calls) = 3
    /\ calls[1].result = "record"
    /\ calls[2].result = "CorruptionError"
    /\ calls[3].result = "None"

\* a write_record, read_next_record or flush call is made in this step
FileCall ==
    /\ last'.op \in {"write_record", "read_next_record", "flush"}
    /\ calls' # calls \/ last' # last

\* C6 as stated: every write_record, read_next_record and flush after close()
\* fails with the StateError and leaves the file as it is.
C6_ClosedStateError ==
    [][fd[1].closed /\ FileCall => last'.result = "ValueError" /\ fsys' = fsys]_vars

\* C6 amended: every write_record, read_next_record and flush after close() fails
\* and leaves the file as it is; the failure is the StateError, except that
\* write_record of a record holding a value that is neither text nor binary fails
\* with the ConfigurationError of the encoding, which runs before the write.
C6_ClosedFails ==
    [][fd[1].closed /\ FileCall =>
        /\ fsys' = fsys
        /\ fd' = fd
        /\ last'.result =
              IF /\ last'.op = "write_record"
                 /\ record_data_to_bin(object_fields, calls'[Len(calls')].rec,
                                       byteorder).err # ""
              THEN "ConfigurationError" ELSE "ValueError"
    ]_vars

\* a closed writer has refused a record it could encode
C6_Witness ==
    /\ backend = "Closed"
    /\ fd[1].closed
    /\ fd[1].mode = "wb"
    /\ last = [op |-> "write_record", obj |-> 1, result |-> "ValueError"]
    /\ calls[Len(calls)].rec = [f1 |-> PyBytes(<<1>>)]

(***************************************************************************)
(* Properties of the InMemory store.                                       *)
(***************************************************************************)
WritesOf(i) == SelectSeq(calls, LAMBDA c : c.op = "write" /\ c.obj = i)
ReadsOf(i) == SelectSeq(calls, LAMBDA c : c.op = "read" /\ c.obj = i)
CallsOf(i) == SelectSeq(calls, LAMBDA c : c.obj = i)
\* the calls on instance i so far are N writes followed by reads
WritesThenReads(i) ==
    \A k \in 1..Len(CallsOf(i)) : CallsOf(i)[k].op = "write" <=> k <= Len(WritesOf(i))

\* C2 (InMemDatastore): after N records were written to a store, its k-th read
\* returns the k-th record written for k <= N and returns None for k = N + 1; the
\* pending count is N minus the number of records read, and 0 from N reads on.
C2_Fifo ==
    \A i \in InMemIds :
        WritesThenReads(i) =>
            LET N == Len(WritesOf(i))
                R == ReadsOf(i)
            IN /\ \A k \in 1..Len(R) :
                     IF k <= N
                     THEN R[k].result = "record" /\ R[k].rec = WritesOf(i)[k].rec
                     ELSE R[k].result = "None"
               /\ num_of_records_left[i] = N - Min(Len(R), N)

(***************************************************************************)
(* Properties of the SplitFiles store.                                     *)
(***************************************************************************)
AllWritesOk == \A k \in 1..Len(calls) : calls[k].result = "ok"
Ceil(a, b) == (a + b - 1) \div b

\* C3: K records written with shard size S and the store closed: the shard files
\* are those numbered 1..ceil(K/S); shard n holds, in order, the records with 0-based
\* index j such that 1 + floor(j/S) = n: S records, but K - (n-1)*S in the last
\* shard; no file when K = 0.
C3_Sharding ==
    (backend = "Split" /\ last.op = "close" /\ AllWritesOk) =>
        LET K == Len(calls)
            S == num_of_records_pre_file
            shards == Ceil(K, S)
        IN /\ DOMAIN fsys = 1..shards
           /\ \A n \in 1..shards :
                 LET held == read_all(fsys[n], object_fields, byteorder)
                     count == IF n < shards THEN S ELSE K - (n - 1) * S
                 IN /\ held.err = ""
                    /\ Len(held.results) = count
                    /\ \A k \in 1..count :
                          held.results[k] = ReadBack(calls[(n - 1) * S + k].rec)

\* three records went to shards of two records and the store was closed
C3_Witness ==
    /\ backend = "Split"
    /\ last.op = "close"
    /\ AllWritesOk
    /\ Len(calls) = 3
    /\ num_of_records_pre_file = 2
    /\ DOMAIN fsys = {1, 2}

\* C7: after close() every write_record fails, creates no shard file and adds no
\* record to a shard.
C7_CloseIsFinal ==
    [][(split_closed /\ last'.op = "write_record" /\ calls' # calls) =>
        last'.result # "ok" /\ fsys' = fsys]_vars

\* a read_next_record or read_all call is made on the SplitFilesDatastore in this step
SplitReadCall ==
    /\ backend = "Split"
    /\ last'.op \in {"read_next_record", "read_all"}
    /\ last' # last

\* C8: in every state read_next_record and read_all of a SplitFilesDatastore fail
\* with NotImplementedError and leave the record index, the open shard and the
\* shard files unchanged.
C8_WriteOnly ==
    [][SplitReadCall =>
        /\ last'.result = "NotImplementedError"
        /\ UNCHANGED <<curr_index, curr_file_datastore, fd, fsys>>]_vars

\* read_all has failed on a store that had written a record and was then closed
C8_Witness ==
    /\ backend = "Split"
    /\ split_closed
    /\ curr_index > 0
    /\ last = [op |-> "read_all", obj |-> 0, result |-> "NotImplementedError"]

(***************************************************************************)
(* Properties of the EncryptionManager.                                    *)
(***************************************************************************)
EncCall(i) == backend = "Enc" /\ i \in DOMAIN calls /\ calls[i].op = "encrypt"
OkEncrypts == SelectSeq(calls, LAMBDA c : c.op = "encrypt" /\ c.result = "ok")
Rotating == backend = "Enc" /\ ctor.encryption_key = NoneVal
FixedKey == backend = "Enc" /\ ctor.encryption_key # NoneVal
\* the encrypt call that follows call i, 0 when there is none
NextEncrypt(i) ==
    LET later == {j \in DOMAIN calls : j > i /\ calls[j].op = "encrypt"}
    IN IF later = {} THEN 0 ELSE CHOOSE j \in later : \A k \in later : j <= k
\* EncryptionManager(method, encryption_key=key, block_size, block_mode) for the
\* method, block size and block mode of the manager under test
FixedManager(key) ==
    EncryptionManager_init([ctor EXCEPT !.encryption_key = PyBytes(key)], <<>>)
\* a manager with a fixed key never changes it
FixedKeyKept ==
    FixedKey =>
       /\ draws = <<>>
       /\ get_key(em) = ctor.encryption_key.v
       /\ \A i \in DOMAIN calls :
             calls[i].key = ctor.encryption_key.v /\ calls[i].key_after = calls[i].key

\* C9 as stated: get_key() before each of two successive encrypt calls of a
\* rotating manager, the first of them successful, gives two different keys; a
\* manager with a fixed key gives that key after any calls.
C9_KeysDiffer ==
    /\ FixedKeyKept
    /\ Rotating =>
          \A i \in DOMAIN calls :
             (EncCall(i) /\ calls[i].result = "ok" /\ NextEncrypt(i) # 0)
                => calls[NextEncrypt(i)].key # calls[i].key

\* C9: a rotating manager draws a key at construction and one after every
\* successful encrypt and none else; get_key() is always the last key drawn, so
\* the key before the k-th successful encrypt is the k-th draw and the key after
\* it the (k+1)-th draw (two draws may coincide); a failed encrypt and a decrypt
\* leave the key; a manager with a fixed key draws nothing and gives that key
\* after any calls.
C9_KeyRotation ==
    /\ FixedKeyKept
    /\ Rotating =>
          /\ Len(draws) = 1 + Len(OkEncrypts)
          /\ get_key(em) = draws[Len(draws)]
          /\ \A k \in DOMAIN OkEncrypts :
                OkEncrypts[k].key = draws[k] /\ OkEncrypts[k].key_after = draws[k + 1]
          /\ \A i \in DOMAIN calls :
                (calls[i].op = "decrypt" \/ calls[i].result # "ok")
                   => calls[i].key_after = calls[i].key

\* a rotating manager has encrypted twice with success, under two different keys
C9_Witness ==
    /\ Rotating
    /\ Len(OkEncrypts) = 2
    /\ OkEncrypts[1].key # OkEncrypts[2].key
    /\ OkEncrypts[2].key = draws[2]
    /\ get_key(em) = draws[3]

\* the key read before a successful encrypt decrypts its ciphertext to its plaintext
DecryptsUnderKeyBefore(c) ==
    decrypt(FixedManager(c.key), c.ciphertext, c.nonce, c.iv)
       = {[err |-> "", plaintext |-> c.plaintext]}
\* the key read after an encrypt call is the one read before the next encrypt call
KeyAfterIsNextKey ==
    /\ \A i \in DOMAIN calls :
          (EncCall(i) /\ NextEncrypt(i) # 0)
             => calls[NextEncrypt(i)].key = calls[i].key_after
    /\ \A i \in DOMAIN calls :
          (EncCall(i) /\ NextEncrypt(i) = 0) => get_key(em) = calls[i].key_after

\* C10 as stated: on a rotating manager the key read before the i-th encrypt
\* decrypts the i-th ciphertext, and the key read after it is the key of the
\* (i+1)-th encryption and not the key of the i-th.
C10_NextKeyNotThisKey ==
    Rotating =>
       /\ KeyAfterIsNextKey
       /\ \A i \in DOMAIN calls :
             (EncCall(i) /\ calls[i].result = "ok")
                => DecryptsUnderKeyBefore(calls[i]) /\ calls[i].key_after # calls[i].key

\* C10: on a rotating manager the key read before the i-th encrypt decrypts the
\* i-th ciphertext (in a manager built with that key fixed), and the key read
\* after it is the key read before the (i+1)-th encrypt, which decrypts the
\* (i+1)-th ciphertext; it is a fresh draw and may equal the key of the i-th.
C10_KeyOfNextEncryption ==
    Rotating =>
       /\ KeyAfterIsNextKey
       /\ \A i \in DOMAIN calls :
             (EncCall(i) /\ calls[i].result = "ok") => DecryptsUnderKeyBefore(calls[i])

\* a rotating manager has encrypted twice with success; the key read after the
\* first differs from the key before it and does not decrypt the first ciphertext
\* to its plaintext, but is the key of the second
C10_Witness ==
    /\ Rotating
    /\ Len(calls) = 2
    /\ \A i \in {1, 2} : EncCall(i) /\ calls[i].result = "ok"
    /\ calls[1].key_after # calls[1].key
    /\ calls[2].key = calls[1].key_after
    /\ calls[1].plaintext # <<>>
    /\ [err |-> "", plaintext |-> calls[1].plaintext]
          \notin decrypt(FixedManager(calls[1].key_after), calls[1].ciphertext,
                         calls[1].nonce, calls[1].iv)

\* the configurations the ciphers accept: SHIFT and XOR in ECB with a key of one
\* byte or more; AES, DES3 and DES with a key of a length the cipher takes and,
\* in ECB and CBC, a padding unit that is a multiple of the cipher's block
SupportedConfig(m) ==
    \/ /\ m.encryption_method \in {"SHIFT", "XOR"}
       /\ m.block_mode = "ECB"
       /\ Len(m.encryption_key) >= 1
    \/ /\ m.encryption_method \in {"AES", "DES3", "DES"}
       /\ m.block_mode \in block_mode_dict
       /\ Len(m.encryption_key) \in key_lengths(m.encryption_method)
       /\ m.block_mode \in {"ECB", "CBC"}
             => m.block_size % cipher_block_size(m.encryption_method) = 0

\* C11: in every supported configuration encrypt succeeds for every plaintext, the
\* empty one and those longer than the key included; the ciphertext of every
\* successful encrypt decrypts, under the key that made it and the nonce/iv that
\* encrypt returned, to exactly the plaintext, and a decrypt call made on a manager
\* that holds this key returns the plaintext.
C11_CipherRoundTrip ==
    backend = "Enc" =>
       \A i \in DOMAIN calls :
          /\ (EncCall(i) /\ SupportedConfig(FixedManager(calls[i].key)))
                => calls[i].result = "ok"
          /\ (EncCall(i) /\ calls[i].result = "ok")
                => /\ SupportedConfig(FixedManager(calls[i].key))
                   /\ decrypt(FixedManager(calls[i].key), calls[i].ciphertext,
                              calls[i].nonce, calls[i].iv)
                         = {[err |-> "", plaintext |-> calls[i].plaintext]}
          /\ (calls[i].op = "decrypt" /\ calls[i].src # 0
                 /\ calls[i].key = calls[calls[i].src].key)
                => /\ calls[i].result = "ok"
                   /\ calls[i].plaintext = calls[calls[i].src].plaintext

\* SHIFT with a key of two bytes has encrypted a plaintext of three bytes, with a
\* byte that wraps around, and a decrypt call under the same key has given it back
C11_Witness ==
    /\ backend = "Enc"
    /\ Len(calls) = 2
    /\ ctor.encryption_method = "SHIFT"
    /\ EncCall(1)
    /\ calls[1].result = "ok"
    /\ Len(calls[1].key) = 2
    /\ Len(calls[1].plaintext) = 3
    /\ \E n \in DOMAIN calls[1].plaintext :
          calls[1].ciphertext.data[n] < calls[1].plaintext[n]
    /\ calls[2].op = "decrypt"
    /\ calls[2].key = calls[1].key
    /\ calls[2].result = "ok"
    /\ calls[2].plaintext = calls[1].plaintext

\* SHIFT or XOR asked for with a block mode other than ECB
StreamCipherInBlockMode ==
    /\ backend = "Enc"
    /\ ctor.encryption_method \in {"SHIFT", "XOR"}
    /\ ctor.block_mode # "ECB"

\* C12: on a manager made for SHIFT or XOR with a block mode other than ECB, every
\* encrypt call and every decrypt call fails with the ConfigurationError, whatever
\* the key, the plaintext or the ciphertext, and the key stays as it was.
C12_StreamCipherEcbOnly ==
    StreamCipherInBlockMode =>
       \A i \in DOMAIN calls :
          /\ calls[i].result = "ConfigurationError"
          /\ calls[i].key_after = calls[i].key

\* such a manager has had an encrypt call and a decrypt call, and both failed
C12_Witness ==
    /\ StreamCipherInBlockMode
    /\ \E i, j \in DOMAIN calls :
          /\ calls[i].op = "encrypt" /\ calls[i].result = "ConfigurationError"
          /\ calls[j].op = "decrypt" /\ calls[j].result = "ConfigurationError"

(***************************************************************************)
(* Properties of the plaintext generators.                                 *)
(***************************************************************************)
GenerateCall(i) == backend = "Gen" /\ i \in DOMAIN calls /\ calls[i].op = "generate"

\* C13: the construction of a plaintext generator, binary or dictionary, fails
\* with the ConfigurationError if and only if min < 0 or max < 0 or max < min; for
\* every other pair it succeeds and the bounds of the object are the arguments.
C13_SizeBoundValidation ==
    backend = "Gen" =>
       /\ pg.err \in {"", "ConfigurationError"}
       /\ pg.err = "ConfigurationError"
             <=> \/ pg.args.min_data_size < 0
                 \/ pg.args.max_data_size < 0
                 \/ pg.args.max_data_size < pg.args.min_data_size
       /\ pg.err = ""
             => /\ pg.min_data_size = pg.args.min_data_size
                /\ pg.max_data_size = pg.args.max_data_size

\* a construction with two bounds that are not negative and max < min has failed
C13_Witness ==
    /\ backend = "Gen"
    /\ pg.args.min_data_size = 2
    /\ pg.args.max_data_size = 1
    /\ pg.err = "ConfigurationError"

\* C14: every result of BinaryPlaintextGenerator.generate() has a length between
\* min and max, both included, and bytes in 0..255; with min = max the length is
\* that value.
C14_BinaryBounds ==
    (backend = "Gen" /\ pg.kind = "binary") =>
       \A i \in DOMAIN calls :
          /\ calls[i].result = "ok"
          /\ pg.min_data_size <= Len(calls[i].data)
          /\ Len(calls[i].data) <= pg.max_data_size
          /\ \A n \in DOMAIN calls[i].data : calls[i].data[n] \in 0..255
          /\ pg.min_data_size = pg.max_data_size => Len(calls[i].data) = pg.min_data_size

\* a binary generator with min < max has given a result of length min and one of
\* length max
C14_Witness ==
    /\ backend = "Gen"
    /\ pg.kind = "binary"
    /\ pg.err = ""
    /\ pg.min_data_size < pg.max_data_size
    /\ \E i, j \in DOMAIN calls :
          /\ GenerateCall(i) /\ Len(calls[i].data) = pg.min_data_size
          /\ GenerateCall(j) /\ Len(calls[j].data) = pg.max_data_size

\* the length in bytes of the longest word of a vocabulary
LongestWord(words) ==
    LET lens == {Len(utf8(words[n])) : n \in DOMAIN words}
    IN CHOOSE l \in lens : \A k \in lens : k <= l

RECURSIVE IsWordsWithSeparators(_, _)
\* data is a sequence of words of the vocabulary, each followed by one separator
IsWordsWithSeparators(data, words) ==
    \/ data = <<>>
    \/ \E n \in DOMAIN words :
          LET w == utf8(words[n]) \o Separator
          IN /\ Len(data) >= Len(w)
             /\ SubSeq(data, 1, Len(w)) = w
             /\ IsWordsWithSeparators(SubSeq(data, Len(w) + 1, Len(data)), words)

\* C15: with a vocabulary that is not empty, every result of
\* DictionaryPlaintextGenerator.generate() has a length L with min <= L and
\* L <= max + the length of the longest word, and is a sequence of words of the
\* vocabulary each followed by one separator.
C15_DictionaryOvershoot ==
    (backend = "Gen" /\ pg.kind = "dict" /\ pg.err = "" /\ Len(pg.words) >= 1) =>
       \A i \in DOMAIN calls :
          /\ calls[i].result = "ok"
          /\ pg.min_data_size <= Len(calls[i].data)
          /\ Len(calls[i].data) <= pg.max_data_size + LongestWord(pg.words)
          /\ IsWordsWithSeparators(calls[i].data, pg.words)

(***************************************************************************)
(* Properties of the TrainingDataGenerator.                                *)
(***************************************************************************)
\* the passes of all generate_data calls, in order: [entry, record, managers_before,
\* managers_after]
RECURSIVE ItersFrom(_)
ItersFrom(i) == IF i > Len(calls) THEN <<>> ELSE calls[i].iters \o ItersFrom(i + 1)
TrainIters == IF backend = "Train" THEN ItersFrom(1) ELSE <<>>
EntryOf(it) == tg.encryption_generators[it.entry]

\* C16: a generate_data call that returns has made exactly num_of_records
\* write_record calls on its output store, and the pending count of the store has
\* grown by num_of_records; after k such calls and no read it is k * num_of_records.
\* A call that an exception ends has made fewer.
C16_AppendsExactlyN ==
    backend = "Train" =>
       /\ \A i \in DOMAIN calls :
             /\ calls[i].result = "ok" => Len(calls[i].iters) = tg.num_of_records
             /\ calls[i].result # "ok" => Len(calls[i].iters) < tg.num_of_records
             /\ calls[i].pending_after = calls[i].pending_before + Len(calls[i].iters)
       /\ (\A i \in DOMAIN calls : calls[i].result = "ok")
             => /\ num_of_records_left[OutputStore] = Len(calls) * tg.num_of_records
                /\ Len(inmem_data) = Len(calls) * tg.num_of_records

\* generate_data has returned twice, with num_of_records of one or more
C16_Witness ==
    /\ backend = "Train"
    /\ tg.num_of_records >= 1
    /\ Len(calls) = 2
    /\ \A i \in DOMAIN calls : calls[i].result = "ok"
    /\ num_of_records_left[OutputStore] = 2 * tg.num_of_records

\* the manager of an entry, were it made with the key of a record as its fixed key
ManagerWithKey(entry, key) ==
    EncryptionManager_init([tg.manager_args[entry.manager] EXCEPT !.encryption_key = key],
                           <<>>)

\* C17: in every record that generate_data writes with a manager, encryption_key
\* is the key that made the ciphertext: it is the key the manager held before the
\* pass, and decrypting the ciphertext of the record with it and with the nonce
\* and iv of the record gives the plaintext of the record; this holds when one
\* rotating manager is taken in several passes and in several calls.
C17_RecordedKeyIsKeyUsed ==
    \A n \in DOMAIN TrainIters :
       LET it == TrainIters[n]
       IN EntryOf(it).manager # 0 =>
             /\ it.record.encryption_key
                   = PyBytes(get_key(it.managers_before[EntryOf(it).manager]))
             /\ decrypt(ManagerWithKey(EntryOf(it), it.record.encryption_key),
                        it.record.ciphertext, it.record.nonce, it.record.iv)
                   = {[err |-> "", plaintext |-> it.record.plaintext.v]}

\* one rotating manager has been taken in two generate_data calls and the two
\* records hold different keys
C17_Witness ==
    /\ backend = "Train"
    /\ Len(calls) = 2
    /\ \E a \in DOMAIN calls[1].iters, b \in DOMAIN calls[2].iters :
          /\ calls[1].iters[a].entry = calls[2].iters[b].entry
          /\ EntryOf(calls[1].iters[a]).manager # 0
          /\ tg.manager_args[EntryOf(calls[1].iters[a]).manager].encryption_key = NoneVal
          /\ calls[1].iters[a].record.encryption_key
                # calls[2].iters[b].record.encryption_key

\* C18: in every record that generate_data writes for an entry without a manager,
\* the ciphertext is the plaintext, encryption_key, nonce and iv are None, the
\* method and block mode are those of the entry, and the pass changes the key of
\* no manager.
C18_PassthroughSentinel ==
    \A n \in DOMAIN TrainIters :
       LET it == TrainIters[n]
       IN EntryOf(it).manager = 0 =>
             /\ it.record.ciphertext = it.record.plaintext
             /\ it.record.encryption_key = NoneVal
             /\ it.record.nonce = NoneVal
             /\ it.record.iv = NoneVal
             /\ it.record.encryption_method = PyLabel(EntryOf(it).encryption_method)
             /\ it.record.block_mode = PyLabel(EntryOf(it).block_mode)
             /\ it.managers_after = it.managers_before

\* a plaintext of one byte or more has been written for the entry without a
\* manager, in a pool that also holds a manager that has encrypted before
C18_Witness ==
    /\ backend = "Train"
    /\ Len(managers) >= 1
    /\ \E a, b \in DOMAIN TrainIters :
          /\ a < b
          /\ EntryOf(TrainIters[a]).manager # 0
          /\ EntryOf(TrainIters[b]).manager = 0
          /\ Len(TrainIters[b].record.plaintext.v) >= 1
          /\ inmem_data[b] = TrainIters[b].record

(***************************************************************************)
(* Properties of the backends side by side.                                *)
(***************************************************************************)
ReadAllCall(i) == backend = "Backends" /\ i \in DOMAIN calls /\ calls[i].op = "read_all"
WrittenToBackends == [k \in 1..NumCalls("write") |-> OkWrites[k].rec]
\* the fields a record holds a value for
PresentFields(rec) == {f \in DOMAIN rec : rec[f] # NoneVal}
\* two values are the same text, or the same bytes whether bytes or bytearray
SameValue(x, y) ==
    IF x.t = "str" \/ y.t = "str" THEN x = y
    ELSE x.t \in {"bytes", "bytearray"} /\ y.t \in {"bytes", "bytearray"} /\ x.v = y.v
SameRecords(a, b) ==
    /\ Len(a) = Len(b)
    /\ \A k \in DOMAIN a :
          /\ PresentFields(a[k]) = PresentFields(b[k])
          /\ \A f \in PresentFields(a[k]) : SameValue(a[k][f], b[k][f])

\* C19 as stated: what is read back from the InMemDatastore, from the file and
\* from the shards is the same sequence of records: the same fields present and
\* the same values in each record.
C19_IdenticalReadBack ==
    \A i \in DOMAIN calls :
       ReadAllCall(i) => /\ SameRecords(calls[i].inmem, calls[i].file)
                         /\ SameRecords(calls[i].inmem, calls[i].shards)

\* C19: the three stores give back as many records as were written, in the order
\* written.  The InMemDatastore gives the written records themselves: a text is a
\* text, a field holding None or an empty value is there.  The file and the
\* shards give the same records as each other: of each written record the fields
\* that held a text or a binary value of one byte or more, each as a bytearray of
\* the bytes of the value, a text by its UTF-8 bytes.
C19_ReadBackNormalised ==
    \A i \in DOMAIN calls :
       ReadAllCall(i) =>
          /\ calls[i].result = "ok"
          /\ calls[i].inmem = WrittenToBackends
          /\ calls[i].file = [k \in DOMAIN calls[i].inmem |-> ReadBack(calls[i].inmem[k])]
          /\ calls[i].shards = calls[i].file

\* two records have been written and read back, from two shards; one holds a text,
\* the other a None, and the InMemDatastore and the file differ on both
C19_Witness ==
    /\ backend = "Backends"
    /\ last.op = "read_all"
    /\ Cardinality(DOMAIN fsys) = 3
    /\ LET c == calls[Len(calls)]
       IN /\ Len(c.inmem) = 2
          /\ \A k \in {1, 2} : "f1" \in DOMAIN c.inmem[k]
          /\ c.inmem[1]["f1"].t = "str"
          /\ "f1" \in DOMAIN c.file[1]
          /\ c.file[1]["f1"].t = "bytearray"
          /\ c.inmem[2]["f1"] = NoneVal
          /\ "f1" \notin DOMAIN c.file[2]
          /\ c.shards = c.file

(***************************************************************************)
(* Properties of the maximum record size.                                  *)
(***************************************************************************)
RECURSIVE FrameSizes(_, _, _)
\* the payload sizes that the length headers of the frames of a file announce,
\* from position pos on
FrameSizes(file, pos, order) ==
    IF pos + LEN_FIELD_SIZE > Len(file) THEN <<>>
    ELSE LET record_size == from_bytes(Slice(file, pos, pos + LEN_FIELD_SIZE), order)
         IN <<record_size>> \o FrameSizes(file, pos + LEN_FIELD_SIZE + record_size, order)

\* C20: every frame that write_record has written to the medium has a payload
\* strictly smaller than the maximum record size.
C20_MaxRecordSize ==
    backend = "MaxSize" =>
       LET sizes == FrameSizes(bytes_of(fsys[FilePath]), 0, byteorder)
       IN \A k \in DOMAIN sizes : sizes[k] < MAX_RECORD_SIZE

(***************************************************************************)
(* Properties of autoflush.                                                *)
(***************************************************************************)
\* the flushes of a call were made with a whole number of records in the file
WholeRecordFlushes(c) ==
    \A k \in DOMAIN c.flush_points : c.flush_points[k] = c.size_after

\* C21: with a threshold N > 0, after k records written exactly floor(k/N) flushes
\* have happened, each with a whole number of records written; with N = 0 no flush
\* ever happens.
C21_Autoflush ==
    backend = "Autoflush" =>
       LET N == fd[1].autoflush_num_records
           k == Len(OkWrites)
       IN /\ N > 0 => /\ fd[1].flush_calls = k \div N
                      /\ \A i \in DOMAIN calls : WholeRecordFlushes(calls[i])
          /\ N = 0 => fd[1].flush_calls = 0

(***************************************************************************)
(* Properties of the Keras data generators.                                *)
(***************************************************************************)
OnlineCall(i) ==
    backend = "Online" /\ i \in DOMAIN calls /\ calls[i].op = "get_items_internal"

\* C22: every get_items_internal call that returns gives exactly batch_size records,
\* all of them generated during that call, and leaves the output store with
\* pending count 0; __len__ is 1.
C22_OnlineBatch ==
    /\ \A i \in DOMAIN calls :
          OnlineCall(i) /\ calls[i].result = "ok" =>
             /\ Len(calls[i].returned) = tg.num_of_records
             /\ calls[i].returned = calls[i].generated
             /\ calls[i].pending_after = 0
    /\ backend = "Online" /\ last.op = "__len__" => last.value = 1

\* the batch that a get_items_internal call of this state returned, and the write
\* indices (from 1) that the claim gives to batch i of K records in shards of S
BatchCall == backend = "Split" /\ kg # <<>> /\ last.op = "get_items_internal"
BatchLen(i, K, S) == Min((i + 1) * S, K) - i * S

OpenShards(fds) == {o \in 1..Len(fds) : ~fds[o].closed}

ChunkedCall(i) == backend = "Chunks" /\ i \in DOMAIN calls /\ calls[i].op = "read"
RECURSIVE Sum(_)
Sum(s) == IF s = <<>> THEN 0 ELSE Head(s) + Sum(Tail(s))

\* a read_internal call ended after finitely many reads of the medium, each giving
\* at least one byte but possibly the last, and returned the next
\* min(read_len, remaining) bytes of the stream
AccumulatedRead(n) ==
    LET file == fsys[FilePath]
        remaining == IF n.pos >= Len(file) THEN 0 ELSE Len(file) - n.pos
    IN /\ n.data = Slice(file, n.pos, n.pos + n.read_len)
       /\ Len(n.data) = Min(n.read_len, remaining)
       /\ Sum(n.chunks) = Len(n.data)
       /\ Len(n.chunks) <= Len(n.data) + 1
       /\ \A k \in 1..(Len(n.chunks) - 1) : n.chunks[k] > 0

\* C25: however the medium chunks its reads, read_internal(n) returns exactly the
\* next min(n, remaining) bytes, and read_next_record gives what it gives on a
\* medium that answers every read in full.
C25_ReadAccumulation ==
    \A i \in DOMAIN calls :
       ChunkedCall(i) =>
          LET c == calls[i]
              whole == BinaryDatastore_read_next_record(
                          [fd[1] EXCEPT !.pos = c.pos_before], fsys[FilePath],
                          object_fields, byteorder)
          IN /\ \A k \in DOMAIN c.reads : AccumulatedRead(c.reads[k])
             /\ c.result = whole.result
             /\ c.rec = whole.rec

\* a record was returned whose header and whose payload each came in two chunks
C25_Witness ==
    \E i \in DOMAIN calls :
       /\ ChunkedCall(i)
       /\ calls[i].result = "record"
       /\ Len(calls[i].reads) = 2
       /\ Len(calls[i].reads[1].chunks) = 2
       /\ Len(calls[i].reads[2].chunks) = 2

(***************************************************************************)
(* Properties of the frames that write_record writes.                      *)
(***************************************************************************)
\* the value bytes of field f of a record: none when the field is absent or None
ValueBytes(rec, f) ==
    IF f \in DOMAIN rec /\ rec[f] # NoneVal THEN BytesOf(rec[f]) ELSE <<>>
RECURSIVE FieldFrames(_, _)
\* for each field, in the order of the schema, a 4-byte length and the value bytes
FieldFrames(rec, fields) ==
    IF fields = <<>> THEN <<>>
    ELSE to_bytes(Len(ValueBytes(rec, Head(fields))), byteorder)
            \o ValueBytes(rec, Head(fields)) \o FieldFrames(rec, Tail(fields))
RECURSIVE SumOfValueLengths(_, _)
SumOfValueLengths(rec, fields) ==
    IF fields = <<>> THEN 0
    ELSE Len(ValueBytes(rec, Head(fields))) + SumOfValueLengths(rec, Tail(fields))

\* a write_record call on the File store returns in this step
FileWriteReturns ==
    /\ backend = "File"
    /\ Len(calls') = Len(calls) + 1
    /\ calls'[Len(calls')].op = "write"
    /\ calls'[Len(calls')].result = "ok"

\* C26: a write_record that returns has added to the file a 4-byte total length,
\* written first, and then for each schema field in schema order a 4-byte length
\* and that many value bytes (length 0 and no bytes for a field absent or None);
\* the total length is 4 * |schema| plus the byte lengths of the present values.
C26_Framing ==
    [][FileWriteReturns =>
         LET rec == calls'[Len(calls')].rec
             total == LEN_FIELD_SIZE * Len(object_fields)
                         + SumOfValueLengths(rec, object_fields)
             added == Slice(fsys'[FilePath], Len(fsys[FilePath]), Len(fsys'[FilePath]))
         IN /\ Slice(fsys'[FilePath], 0, Len(fsys[FilePath])) = fsys[FilePath]
            /\ Slice(added, 0, LEN_FIELD_SIZE) = to_bytes(total, byteorder)
            /\ Slice(added, LEN_FIELD_SIZE, Len(added)) = FieldFrames(rec, object_fields)
            /\ Len(added) = LEN_FIELD_SIZE + total
            /\ fd'[1].num_records = fd[1].num_records + 2]_vars

\* the second record written has a two-byte text in f1 and a byte in f2; the
\* first one left f1 out
C26_Witness ==
    /\ backend = "File"
    /\ object_fields = <<"f1", "f2">>
    /\ Len(calls) = 2
    /\ AllWritesOk
    /\ calls[1].op = "write" /\ calls[1].rec = [f2 |-> PyBytes(<<1>>)]
    /\ calls[2].op = "write"
    /\ calls[2].rec = [f1 |-> PyStr(<<233>>), f2 |-> PyBytes(<<1>>)]
    /\ Len(fsys[FilePath]) = 13 + 15

\* a write_record call on the File store fails in this step on a value that is
\* neither text nor binary
FileWriteFailsOnType ==
    /\ backend = "File"
    /\ Len(calls') = Len(calls) + 1
    /\ calls'[Len(calls')].op = "write"
    /\ calls'[Len(calls')].result = "ConfigurationError"
FailedWrites == SelectSeq(calls, LAMBDA c : c.op = "write" /\ c.result # "ok")

\* C27: a write_record that fails on a value that is neither text nor binary has
\* written no byte and changed nothing of the store; the file holds whole frames,
\* those of the records written with success, which read back as before.
C27_FailedWriteAtomic ==
    /\ [][FileWriteFailsOnType => fsys' = fsys /\ fd' = fd]_vars
    /\ [](backend = "File" /\ truncated = 0 /\ FailedWrites # <<>> =>
            LET held == read_all(fsys[FilePath], object_fields, byteorder)
            IN /\ held.err = ""
               /\ held.results = [k \in 1..Len(OkWrites) |-> ReadBack(OkWrites[k].rec)])

\* a record was written, and then a write failed on its second field
C27_Witness ==
    /\ backend = "File"
    /\ truncated = 0
    /\ object_fields = <<"f1", "f2">>
    /\ Len(calls) = 2
    /\ calls[1].op = "write" /\ calls[1].result = "ok"
    /\ calls[1].rec = [f1 |-> PyStr(<<233>>), f2 |-> PyBytes(<<1>>)]
    /\ calls[2].op = "write" /\ calls[2].result = "ConfigurationError"
    /\ calls[2].rec = [f1 |-> PyBytes(<<1>>), f2 |-> PyInt]
    /\ Len(fsys[FilePath]) = 15

(***************************************************************************)
(* Properties of the decoding of a payload.                                *)
(***************************************************************************)
RECURSIVE WellFramed(_, _, _)
\* the payload holds, from index on, a whole length header for each field, and
\* no field's length runs past the end of the payload
WellFramed(payload, fields, index) ==
    IF fields = <<>> THEN TRUE
    ELSE /\ index + LEN_FIELD_SIZE <= Len(payload)
         /\ LET field_size ==
                   from_bytes(Slice(payload, index, index + LEN_FIELD_SIZE), byteorder)
            IN /\ index + LEN_FIELD_SIZE + field_size <= Len(payload)
               /\ WellFramed(payload, Tail(fields), index + LEN_FIELD_SIZE + field_size)

\* C28: when read_next_record has read a payload of the announced length in which
\* a field's length runs past the end, or which ends before the length headers of
\* all schema fields, it fails with CorruptionError.
C28_InnerFrameCorruption ==
    [][(backend = "Stream" /\ Len(calls') = Len(calls) + 1
           /\ calls'[Len(calls')].op = "read") =>
         LET file == fsys[FilePath]
             pos == fd[1].pos
             header == Slice(file, pos, pos + LEN_FIELD_SIZE)
             record_size == from_bytes(header, byteorder)
             payload == Slice(file, pos + LEN_FIELD_SIZE, pos + LEN_FIELD_SIZE + record_size)
         IN (/\ Len(header) = LEN_FIELD_SIZE
             /\ Len(payload) = record_size
             /\ ~WellFramed(payload, object_fields, 0))
               => calls'[Len(calls')].result = "CorruptionError"]_vars

(***************************************************************************)
(* Properties of two InMemDatastore instances.                             *)
(***************************************************************************)
RecordsReadOf(i) == SelectSeq(ReadsOf(i), LAMBDA c : c.result = "record")

\* C29: whatever the interleaving of the calls on the two instances, the records
\* that the reads of an instance return are records written to that instance, in
\* the order in which they were written to it.
C29_InstancesIsolated ==
    backend = "InMem" =>
       \A i \in InMemIds :
          /\ Len(RecordsReadOf(i)) <= Len(WritesOf(i))
          /\ \A k \in 1..Len(RecordsReadOf(i)) :
                RecordsReadOf(i)[k].rec = WritesOf(i)[k].rec

(***************************************************************************)
(* Properties of the key of an EncryptionManager.                          *)
(***************************************************************************)
\* C30: a decrypt call, a get_key call and an encrypt call that fails leave the
\* manager, and so the value of get_key(), as they found it; the key changes only
\* in an encrypt call that returns, and only when the manager was constructed
\* without a key.
C30_KeyChangedOnlyByEncrypt ==
    [][backend = "Enc" =>
         /\ last'.op \in {"decrypt", "get_key"} => em' = em
         /\ (last'.op = "encrypt" /\ last'.result # "ok") => em' = em
         /\ get_key(em') # get_key(em) =>
               /\ last'.op = "encrypt"
               /\ last'.result = "ok"
               /\ ctor.encryption_key = NoneVal
         /\ ctor.encryption_key # NoneVal => get_key(em') = ctor.encryption_key.v]_vars

\* on a manager that draws its keys, an encrypt has failed, a decrypt was made and
\* get_key() reports the key drawn at construction
C30_Witness ==
    /\ backend = "Enc"
    /\ ctor.encryption_key = NoneVal
    /\ \E i \in DOMAIN calls : calls[i].op = "encrypt" /\ calls[i].result # "ok"
    /\ \E i \in DOMAIN calls : calls[i].op = "decrypt"
    /\ last.op = "get_key"
    /\ last.value = draws[1]
    /\ Len(draws) = 1

====
